---- MODULE Spec2Model ----
(***************************************************************************)
(* prompt-go-mcp: the adaptive router (packages/core/learning), the scorer *)
(* (packages/core/routing), the budget manager (packages/core/policy), the *)
(* usage log (packages/storage) and summary (packages/core/analytics) and  *)
(* the handlers of apps/mcp_server/tools.py as a state machine.            *)
(*                                                                         *)
(* Conventions.  Money is an integer number of CostUnit = 0.00005 USD, so  *)
(* that every product tokens * rate of the default rate table is exact.    *)
(* Numbers are rationals <<num, den>> in lowest terms.  The learned route  *)
(* weights are computed in floating point: each operation's result is      *)
(* rounded to FloatBits significant bits, ties to even, as IEEE arithmetic *)
(* rounds to 53.  Sums of money are exact.  Time is an integer number of   *)
(* days.  A prompt is represented by the signals the scorer reads from it. *)
(***************************************************************************)
EXTENDS Integers, Sequences, FiniteSets, TLC

VARIABLES
    now,          \* datetime.utcnow(), in days
    storeUp,      \* whether the usage-record store answers
    learning,     \* PG_ENABLE_LEARNING == "true"
    config,       \* config/<path>_policy.yaml, by path
    requests,     \* the requests table, in insertion order
    disk,         \* data/learning/<path>_patterns.json, by path
    weightsCache, \* tools._TEAM_WEIGHTS_CACHE
    routers,      \* learning_manager.routers: org -> AdaptiveRouter.patterns
    tasks,        \* learn_from_usage coroutines suspended after their query
    reply,        \* the last value returned, or exception raised, by an operation
    learned,      \* history: the usage snapshot the stored weights were computed from
    fbCalls       \* history: the record_feedback calls made so far, in order

vars == <<now, storeUp, learning, config, requests, disk, weightsCache,
          routers, tasks, reply, learned, fbCalls>>

\* the deployment: what no operation of the program changes
env == <<learning, config>>

----------------------------------------------------------------------------
(* Bounds of the model *)

MaxTime == 2
MaxRequests == 2
MaxFeedback == 1
\* significand bits the model's floats keep (binary64 keeps 53)
FloatBits == 8
\* longest list of rows handed to summarize
MaxRows == 3

----------------------------------------------------------------------------
(* Rationals *)

RECURSIVE GCD(_, _)
GCD(a, b) == IF b = 0 THEN a ELSE GCD(b, a % b)

Rat(n, d) == LET g == GCD(n, d) IN <<n \div g, d \div g>>

RatOne == <<1, 1>>

\* products are taken after the common factors are cancelled
RatMul(a, b) ==
    LET g1 == GCD(a[1], b[2])
        g2 == GCD(b[1], a[2])
    IN  Rat((a[1] \div g1) * (b[1] \div g2), (a[2] \div g2) * (b[2] \div g1))

RatDiv(a, b) == RatMul(a, <<b[2], b[1]>>)

RatAdd(a, b) == Rat(a[1] * b[2] + b[1] * a[2], a[2] * b[2])

\* a < b, cross-multiplied over the reduced denominators
RatLess(a, b) ==
    LET g == GCD(a[2], b[2])
    IN  a[1] * (b[2] \div g) < b[1] * (a[2] \div g)

RatLeq(a, b) == ~RatLess(b, a)

\* the integer nearest to n / d, ties to the even one: Python's round
RoundHalfEven(n, d) ==
    LET q == n \div d
        r == n % d
    IN  IF 2 * r < d THEN q
        ELSE IF 2 * r > d THEN q + 1
        ELSE IF q % 2 = 0 THEN q ELSE q + 1

RECURSIVE Pow2(_)
Pow2(k) == IF k = 0 THEN 1 ELSE 2 * Pow2(k - 1)

\* the float nearest to n/d * down/up, once n/d is scaled into
\* [2^(FloatBits-1), 2^FloatBits)
RECURSIVE RoundScaled(_, _, _, _)
RoundScaled(n, d, up, down) ==
    IF n < Pow2(FloatBits - 1) * d THEN RoundScaled(2 * n, d, 2 * up, down)
    ELSE IF n >= Pow2(FloatBits) * d THEN RoundScaled(n, 2 * d, up, 2 * down)
    ELSE Rat(RoundHalfEven(n, d) * down, up)

\* the result of a float operation whose exact value is x >= 0: x rounded to
\* the nearest float, ties to even
Float(x) == IF x[1] = 0 THEN <<0, 1>> ELSE RoundScaled(x[1], x[2], 1, 1)

----------------------------------------------------------------------------
(* Channels, schemas *)

Channels == <<"web", "agent", "ask", "direct">>

ChannelSet == {Channels[i] : i \in DOMAIN Channels}

NoUser == "None"

\* Organization names are character sequences, so that the file name derived
\* from a name is computed the way the code computes it.
OrgAcme == <<"A", " ", "b">>

OrgAlias == <<"a", "_", "b">>

OrgNames == {OrgAcme, OrgAlias}

\* str.lower() on one character
LowerChar(c) ==
    CASE c = "A" -> "a"
      [] c = "B" -> "b"
      [] OTHER -> c

\* str.replace(' ', '_') on one character
ReplaceSpace(c) == IF c = " " THEN "_" ELSE c

\* AdaptiveRouter.__init__: data/learning/{org.lower().replace(' ', '_')}_patterns.json
PathOf(org) == [i \in DOMAIN org |-> ReplaceSpace(LowerChar(org[i]))]

Paths == {PathOf(o) : o \in OrgNames}

----------------------------------------------------------------------------
(* Cost estimator *)

\* cost_models.DEFAULT, rates in units of 0.05 USD per 1000 tokens
DefaultCosts ==
    [m \in {"openai/gpt-4o-mini", "openai/gpt-4o", "openai/gpt-3.5-turbo",
            "anthropic/claude-3-haiku", "local/tiny-llama"} |->
        CASE m = "openai/gpt-4o-mini" -> [in |-> 3, out |-> 12]
          [] m = "openai/gpt-4o" -> [in |-> 50, out |-> 200]
          [] m = "openai/gpt-3.5-turbo" -> [in |-> 10, out |-> 30]
          [] m = "anthropic/claude-3-haiku" -> [in |-> 5, out |-> 25]
          [] OTHER -> [in |-> 0, out |-> 0]]

\* tools.COSTS = load_costs(...): no cost_models.yaml is deployed
COSTS == DefaultCosts

\* variant: only the input tokens are charged
estimate_input_only(tokens_in, tokens_out, model, costs) ==
    IF model \in DOMAIN costs THEN tokens_in * costs[model]["in"] ELSE 0

\* estimate(): (tokens_in / 1000) * c["in"] + (tokens_out / 1000) * c["out"],
\* in units of 0.00005 USD
estimate(tokens_in, tokens_out, model, costs) ==
    LET c == IF model \in DOMAIN costs THEN costs[model] ELSE [in |-> 0, out |-> 0]
    IN  tokens_in * c["in"] + tokens_out * c["out"]

----------------------------------------------------------------------------
(* Sequence helpers *)

\* Python s[-n:]
LastN(s, n) == IF Len(s) <= n THEN s ELSE SubSeq(s, Len(s) - n + 1, Len(s))

\* d[k] = v on a dict
Put(d, k, v) == [x \in DOMAIN d \cup {k} |-> IF x = k THEN v ELSE d[x]]

----------------------------------------------------------------------------
(* Usage-record store *)

\* repo.get_usage_between: the rows of org with since <= ts < until, in table order
get_usage_between(table, org, since, until) ==
    SelectSeq(table, LAMBDA r : r.org = org /\ r.ts >= since /\ r.ts < until)

----------------------------------------------------------------------------
(* Adaptive router: persisted pattern state *)

\* the cap of both pattern logs, record_feedback's [-1000:]
PATTERN_CAP == 1000

\* the window of _apply_keyword_learning, [-100:]
RECENT_PATTERNS == 100

\* learn_from_usage(days_back=7)
DEFAULT_DAYS_BACK == 7

DefaultWeights == [c \in ChannelSet |-> RatOne]

\* the dict _load_patterns returns when there is no readable file
DefaultPatterns(t) ==
    [route_weights |-> DefaultWeights,
     keyword_preferences |-> << >>,
     user_preferences |-> << >>,
     successful_patterns |-> << >>,
     failed_patterns |-> << >>,
     last_updated |-> t]

LogKeys == {"successful_patterns", "failed_patterns"}

\* json.dump: the document written for a patterns dict (None becomes null)
JsonDump(p) ==
    [k \in DOMAIN p |->
        IF k \in LogKeys
        THEN [i \in DOMAIN p[k] |->
                 [p[k][i] EXCEPT !.user = IF @ = NoUser THEN "null" ELSE @]]
        ELSE p[k]]

\* a json.load that leaves null as the string it was written as
JsonLoadNullKept(doc) == doc

\* json.load: the dict read back from a document (null becomes None)
JsonLoad(doc) ==
    [k \in DOMAIN doc |->
        IF k \in LogKeys
        THEN [i \in DOMAIN doc[k] |->
                 [doc[k][i] EXCEPT !.user = IF @ = "null" THEN NoUser ELSE @]]
        ELSE doc[k]]

AbsentFile == [kind |-> "absent"]

GarbageFile == [kind |-> "garbage"]

JsonFile(doc) == [kind |-> "json", text |-> doc]

\* _load_patterns: the file's content when it exists and parses, whatever its
\* structure; the default dict when it is absent or json.load raises
load_patterns(file, t) ==
    IF file.kind = "json" THEN JsonLoad(file.text) ELSE DefaultPatterns(t)

\* _save_patterns: stamps last_updated on the live dict, then dumps it
StampPatterns(p, t) == Put(p, "last_updated", t)

save_patterns(p, t) == JsonFile(JsonDump(StampPatterns(p, t)))

----------------------------------------------------------------------------
(* Adaptive router: learning *)

RoutesSeen(usage_data) == {usage_data[i].route : i \in DOMAIN usage_data}

RECURSIVE TotalCost(_, _)
TotalCost(usage_data, route) ==
    IF usage_data = << >> THEN 0
    ELSE (IF Head(usage_data).route = route THEN Head(usage_data).cost_usd ELSE 0)
         + TotalCost(Tail(usage_data), route)

RECURSIVE TotalLatency(_, _)
TotalLatency(usage_data, route) ==
    IF usage_data = << >> THEN 0
    ELSE (IF Head(usage_data).route = route THEN Head(usage_data).latency_ms ELSE 0)
         + TotalLatency(Tail(usage_data), route)

CountRoute(usage_data, route) ==
    Len(SelectSeq(usage_data, LAMBDA r : r.route = route))

\* learn_from_usage, the loop's route_performance
route_performance(usage_data) ==
    [route \in RoutesSeen(usage_data) |->
        [total_cost |-> TotalCost(usage_data, route),
         total_latency |-> TotalLatency(usage_data, route),
         count |-> CountRoute(usage_data, route)]]

\* "if req.user"
Truthy(user) == user # NoUser /\ user # ""

\* learn_from_usage, the loop's user_preferences
user_preferences(usage_data) ==
    LET users == {usage_data[i].user : i \in {j \in DOMAIN usage_data : Truthy(usage_data[j].user)}}
        rows(u) == SelectSeq(usage_data, LAMBDA r : r.user = u)
    IN  [u \in users |-> [route \in RoutesSeen(rows(u)) |-> CountRoute(rows(u), route)]]

\* efficiency taken as dollars per request
efficiency_scores_inverted(performance) ==
    [route \in {r \in DOMAIN performance :
                   performance[r].count > 0 /\ performance[r].total_cost > 0} |->
        Float(Rat(performance[route].total_cost, performance[route].count))]

\* _update_route_weights, efficiency_scores: requests per dollar
efficiency_scores(performance) ==
    [route \in {r \in DOMAIN performance :
                   performance[r].count > 0 /\ performance[r].total_cost > 0} |->
        Float(Rat(performance[route].count, performance[route].total_cost))]

\* min(efficiency_scores.values()) in place of max
MinEfficiency(eff) ==
    CHOOSE m \in {eff[r] : r \in DOMAIN eff} : \A r \in DOMAIN eff : RatLeq(m, eff[r])

\* max(efficiency_scores.values())
MaxEfficiency(eff) ==
    CHOOSE m \in {eff[r] : r \in DOMAIN eff} : \A r \in DOMAIN eff : RatLeq(eff[r], m)

Half == <<1, 2>>

\* _update_route_weights: the new route_weights
update_route_weights(performance) ==
    LET eff == efficiency_scores(performance)
    IN  [c \in ChannelSet |->
            IF DOMAIN eff # {} /\ c \in DOMAIN eff
            THEN Float(RatAdd(RatOne,
                     Float(RatMul(Float(RatDiv(eff[c], MaxEfficiency(eff))), Half))))
            ELSE RatOne]

\* learn_from_usage after its query, lines 63-96: None when the window is
\* empty, else the patterns dict as mutated before _save_patterns
LearnedPatterns(p, usage_data) ==
    Put(Put(p, "route_weights", update_route_weights(route_performance(usage_data))),
        "user_preferences", user_preferences(usage_data))

----------------------------------------------------------------------------
(* Adaptive router: feedback *)

\* The prompts of the model, each given by the signals the scorer reads:
\* "What is the latest macOS notarization policy in 2025?",
\* "Implement FastAPI endpoint and Dockerfile", "Explain list vs tuple?"
PromptList ==
    << [fresh |-> TRUE,  compare |-> FALSE, complex |-> FALSE, stepwise |-> FALSE,
        bullets |-> FALSE, ambiguous |-> FALSE, notsure |-> FALSE, recommend |-> FALSE,
        budget |-> FALSE, short |-> TRUE, oneq |-> TRUE],
       [fresh |-> FALSE, compare |-> FALSE, complex |-> TRUE,  stepwise |-> FALSE,
        bullets |-> FALSE, ambiguous |-> FALSE, notsure |-> FALSE, recommend |-> FALSE,
        budget |-> FALSE, short |-> TRUE, oneq |-> FALSE],
       [fresh |-> FALSE, compare |-> FALSE, complex |-> FALSE, stepwise |-> FALSE,
        bullets |-> FALSE, ambiguous |-> FALSE, notsure |-> FALSE, recommend |-> FALSE,
        budget |-> FALSE, short |-> TRUE, oneq |-> TRUE] >>

Prompts == {PromptList[i] : i \in DOMAIN PromptList}

\* hash(prompt) % 1000000: a number that identifies the prompt
PromptHash(prompt) == CHOOSE i \in DOMAIN PromptList : PromptList[i] = prompt

\* record_feedback, feedback_entry
FeedbackEntry(prompt, suggested_route, actual_route, outcome, user, t) ==
    [timestamp |-> t,
     prompt_hash |-> PromptHash(prompt),
     suggested_route |-> suggested_route,
     actual_route |-> actual_route,
     outcome |-> outcome,
     user |-> user]

\* a record_feedback that files every good outcome as a success
TargetLogAnyGood(entry) ==
    IF entry.outcome = "good" THEN "successful_patterns"
    ELSE IF entry.outcome = "bad" THEN "failed_patterns"
    ELSE "none"

\* record_feedback, lines 151-154: the log the entry is appended to, if any
TargetLog(entry) ==
    IF entry.outcome = "good" /\ entry.suggested_route = entry.actual_route
    THEN "successful_patterns"
    ELSE IF entry.outcome = "bad" THEN "failed_patterns"
    ELSE "none"

\* log[:1000] in place of log[-1000:]
TrimLogOldest(log) == SubSeq(log, 1, IF Len(log) < PATTERN_CAP THEN Len(log) ELSE PATTERN_CAP)

\* record_feedback, lines 157-158: log[-1000:]
TrimLog(log) == LastN(log, PATTERN_CAP)

\* record_feedback up to _save_patterns. A key missing from the dict raises
\* KeyError at the statement that reads it; the statements before it have
\* already changed the live dict.
record_feedback(p, entry) ==
    LET target == TargetLog(entry) IN
    IF target # "none" /\ target \notin DOMAIN p
    THEN [raised |-> TRUE, patterns |-> p]
    ELSE
      LET p1 == IF target = "none" THEN p ELSE Put(p, target, Append(p[target], entry)) IN
      IF "successful_patterns" \notin DOMAIN p1
      THEN [raised |-> TRUE, patterns |-> p1]
      ELSE
        LET p2 == Put(p1, "successful_patterns", TrimLog(p1["successful_patterns"])) IN
        IF "failed_patterns" \notin DOMAIN p2
        THEN [raised |-> TRUE, patterns |-> p2]
        ELSE [raised |-> FALSE,
              patterns |-> Put(p2, "failed_patterns", TrimLog(p2["failed_patterns"]))]

----------------------------------------------------------------------------
(* Scorer and explainer *)

\* _sigmoid at the accumulator values score can produce (in tenths), to four
\* decimals
sigmoid(x) ==
    CASE x = 0  -> Rat(5000, 10000)
      [] x = 4  -> Rat(5987, 10000)
      [] x = 9  -> Rat(7109, 10000)
      [] x = 11 -> Rat(7503, 10000)
      [] x = 12 -> Rat(7685, 10000)
      [] x = 16 -> Rat(8320, 10000)

\* the accumulators with 1.6 for the agent signals in place of 1.1
AccumulatorsAgentHeavy(prompt) ==
    [c \in ChannelSet |->
        CASE c = "web" ->
               (IF prompt.fresh THEN 12 ELSE 0) + (IF prompt.compare THEN 4 ELSE 0)
          [] c = "agent" ->
               IF prompt.complex \/ prompt.stepwise \/ prompt.bullets THEN 16 ELSE 0
          [] c = "ask" ->
               IF prompt.ambiguous \/ prompt.notsure
                  \/ (prompt.recommend /\ ~prompt.budget) THEN 9 ELSE 0
          [] c = "direct" ->
               IF prompt.short /\ prompt.oneq /\ ~prompt.fresh /\ ~prompt.complex
               THEN 9 ELSE 0]

\* score, lines 12-22: the accumulators s, in tenths
Accumulators(prompt) ==
    [c \in ChannelSet |->
        CASE c = "web" ->
               (IF prompt.fresh THEN 12 ELSE 0) + (IF prompt.compare THEN 4 ELSE 0)
          [] c = "agent" ->
               IF prompt.complex \/ prompt.stepwise \/ prompt.bullets THEN 11 ELSE 0
          [] c = "ask" ->
               IF prompt.ambiguous \/ prompt.notsure
                  \/ (prompt.recommend /\ ~prompt.budget) THEN 9 ELSE 0
          [] c = "direct" ->
               IF prompt.short /\ prompt.oneq /\ ~prompt.fresh /\ ~prompt.complex
               THEN 9 ELSE 0]

\* score with weights.get(k, 0.0)
score_missing_zero(prompt, weights) ==
    [c \in ChannelSet |->
        RatMul(sigmoid(Accumulators(prompt)[c]),
               IF c \in DOMAIN weights THEN weights[c] ELSE <<0, 1>>)]

\* score, line 23: _sigmoid(v) * weights.get(k, 1.0)
score(prompt, weights) ==
    [c \in ChannelSet |->
        RatMul(sigmoid(Accumulators(prompt)[c]),
               IF c \in DOMAIN weights THEN weights[c] ELSE RatOne)]

\* explain
explain(prompt) ==
    LET r == (IF prompt.fresh THEN <<"Fresh/volatile info -> web">> ELSE << >>)
             \o (IF prompt.complex \/ prompt.stepwise
                 THEN <<"Multi-step/tooling -> agent">> ELSE << >>)
             \o (IF prompt.ambiguous THEN <<"Underspecified -> ask">> ELSE << >>)
             \o (IF prompt.short /\ prompt.oneq /\ ~prompt.fresh
                 THEN <<"Short Q -> direct">> ELSE << >>)
    IN  IF r = << >> THEN <<"No strong signals; direct or ask are safe defaults">> ELSE r

ChannelIndex(c) == CHOOSE i \in DOMAIN Channels : Channels[i] = c

\* the last channel, in the dict's order, whose score is the greatest
TopRouteLast(scores) ==
    LET best(i) == \A j \in DOMAIN Channels : RatLeq(scores[Channels[j]], scores[Channels[i]])
    IN  Channels[CHOOSE i \in DOMAIN Channels :
                    best(i) /\ \A j \in DOMAIN Channels : best(j) => j <= i]

\* max(scores.items(), key=...)[0] and sorted(..., reverse=True)[0][0]: the
\* first channel, in the dict's order, whose score is the greatest
TopRoute(scores) ==
    LET best(i) == \A j \in DOMAIN Channels : RatLeq(scores[Channels[j]], scores[Channels[i]])
    IN  Channels[CHOOSE i \in DOMAIN Channels :
                    best(i) /\ \A j \in DOMAIN Channels : best(j) => i <= j]

\* round(v, 4), in ten-thousandths
Round4(v) ==
    LET g == GCD(v[2], 10000)
    IN  RoundHalfEven(v[1] * (10000 \div g), v[2] \div g)

\* sorted(scores.items(), key=lambda x: x[1], reverse=True): stable, so equal
\* scores keep the dict's order
Ranking(scores) ==
    LET before(d, c) == \/ RatLess(scores[c], scores[d])
                        \/ (scores[d] = scores[c] /\ ChannelIndex(d) < ChannelIndex(c))
        rank(c) == 1 + Cardinality({d \in ChannelSet : before(d, c)})
    IN  [i \in DOMAIN Channels |->
            LET c == CHOOSE x \in ChannelSet : rank(x) = i
            IN  [route |-> c, score |-> Round4(scores[c])]]

----------------------------------------------------------------------------
(* Adaptive router: suggestions *)

RECURSIVE SumValues(_, _)
SumValues(f, keys) ==
    IF keys = {} THEN 0
    ELSE LET k == CHOOSE x \in keys : TRUE IN f[k] + SumValues(f, keys \ {k})

RECURSIVE RatPow(_, _)
RatPow(b, k) == IF k = 0 THEN RatOne ELSE RatMul(b, RatPow(b, k - 1))

KeyError == [raised |-> TRUE]

\* variant: the thresholds taken inclusively (>= 10 requests, >= 40%)
get_adaptive_weights_inclusive(p, user) ==
    IF ~Truthy(user) \/ user \notin DOMAIN p["user_preferences"]
    THEN [raised |-> FALSE, weights |-> p["route_weights"]]
    ELSE
      LET weights == p["route_weights"]
          user_prefs == p["user_preferences"][user]
          total_user_requests == SumValues(user_prefs, DOMAIN user_prefs)
          preferred == {route \in DOMAIN user_prefs :
                          5 * user_prefs[route] >= 2 * total_user_requests}
      IN  [raised |-> FALSE,
           weights |-> [c \in DOMAIN weights |->
              IF total_user_requests >= 10 /\ c \in preferred
              THEN RatMul(weights[c], <<6, 5>>) ELSE weights[c]]]

\* get_adaptive_weights
get_adaptive_weights(p, user) ==
    IF "route_weights" \notin DOMAIN p THEN KeyError
    ELSE IF ~Truthy(user) THEN [raised |-> FALSE, weights |-> p["route_weights"]]
    ELSE IF "user_preferences" \notin DOMAIN p THEN KeyError
    ELSE IF user \notin DOMAIN p["user_preferences"]
         THEN [raised |-> FALSE, weights |-> p["route_weights"]]
    ELSE
      LET weights == p["route_weights"]
          user_prefs == p["user_preferences"][user]
          total_user_requests == SumValues(user_prefs, DOMAIN user_prefs)
          \* count / total > 0.4
          preferred == {route \in DOMAIN user_prefs :
                          5 * user_prefs[route] > 2 * total_user_requests}
      IN  IF total_user_requests > 10
          THEN IF preferred \subseteq DOMAIN weights
               THEN [raised |-> FALSE,
                     weights |-> [c \in DOMAIN weights |->
                        IF c \in preferred THEN RatMul(weights[c], <<6, 5>>)
                        ELSE weights[c]]]
               ELSE KeyError
          ELSE [raised |-> FALSE, weights |-> weights]

\* _apply_keyword_learning: scores[route] *= 1.1 once for every entry of
\* successful_patterns[-100:] whose suggested and actual route are that route
apply_keyword_learning(p, scores) ==
    IF "successful_patterns" \notin DOMAIN p THEN KeyError
    ELSE
      LET recent == LastN(p["successful_patterns"], RECENT_PATTERNS)
          hits(c) == Cardinality({i \in DOMAIN recent :
                        /\ recent[i].suggested_route = recent[i].actual_route
                        /\ recent[i].suggested_route = c})
          routes == {recent[i].suggested_route :
                        i \in {j \in DOMAIN recent :
                                  recent[j].suggested_route = recent[j].actual_route}}
      IN  IF routes \subseteq DOMAIN scores
          THEN [raised |-> FALSE,
                scores |-> [c \in DOMAIN scores |->
                              RatMul(scores[c], RatPow(<<11, 10>>, hits(c)))]]
          ELSE KeyError

\* suggest_with_learning
suggest_with_learning(p, prompt, user) ==
    LET w == get_adaptive_weights(p, user) IN
    IF w.raised THEN KeyError
    ELSE
      LET k == apply_keyword_learning(p, score(prompt, w.weights)) IN
      IF k.raised THEN KeyError
      ELSE IF user # NoUser /\ "user_preferences" \notin DOMAIN p THEN KeyError
      ELSE [raised |-> FALSE,
            top_route |-> TopRoute(k.scores),
            scores |-> k.scores,
            learning_applied |-> TRUE,
            confidence |-> k.scores[TopRoute(k.scores)],
            user_personalized |->
                user # NoUser /\ user \in DOMAIN p["user_preferences"]]

----------------------------------------------------------------------------
(* Team policy weights (static path of suggestRoute) *)

YamlFile(doc) == [kind |-> "yaml", doc |-> doc]

NotCached == [cached |-> FALSE]

\* _load_team_weights, lines 186-198: the defaults, updated with the file's
\* routing_weights when the file exists, parses and has that key
TeamWeights(file) ==
    IF file.kind = "yaml" /\ "routing_weights" \in DOMAIN file.doc
    THEN LET rw == file.doc["routing_weights"]
         IN  [c \in ChannelSet \cup DOMAIN rw |-> IF c \in DOMAIN rw THEN rw[c] ELSE RatOne]
    ELSE DefaultWeights

\* _load_team_weights
load_team_weights(org) ==
    IF weightsCache[org].cached THEN weightsCache[org].weights
    ELSE TeamWeights(config[PathOf(org)])

\* _get_team_context, weekly_spend: round(total_cost, 2), in cents
RECURSIVE SumCost(_)
SumCost(rows) == IF rows = << >> THEN 0 ELSE Head(rows).cost_usd + SumCost(Tail(rows))

WeeklySpend(org) ==
    RoundHalfEven(SumCost(get_usage_between(requests, org, now - 7, now)), 200)

----------------------------------------------------------------------------
(* Usage summary *)

\* variant: the latencies in the order of the rows
Unsorted(s) == s

\* variant: the keys in the order of their last occurrence
RECURSIVE KeysInOrderLast(_, _)
KeysInOrderLast(rows, by) ==
    IF rows = << >> THEN << >>
    ELSE LET rest == KeysInOrderLast(Tail(rows), by)
             key == Head(rows)[by]
         IN  IF \E i \in DOMAIN rest : rest[i] = key THEN rest ELSE <<key>> \o rest

\* sorted(v["latencies"])
RECURSIVE Sorted(_)
Sorted(s) ==
    IF s = << >> THEN << >>
    ELSE LET i == CHOOSE k \in DOMAIN s : \A j \in DOMAIN s : s[k] <= s[j]
         IN  <<s[i]>> \o Sorted(SubSeq(s, 1, i - 1) \o SubSeq(s, i + 1, Len(s)))

\* the keys of the rows in the order of their first occurrence (dict order)
RECURSIVE KeysInOrder(_, _)
KeysInOrder(rows, by) ==
    IF rows = << >> THEN << >>
    ELSE LET rest == KeysInOrder(SubSeq(rows, 1, Len(rows) - 1), by)
             key == rows[Len(rows)][by]
         IN  IF \E i \in DOMAIN rest : rest[i] = key THEN rest ELSE Append(rest, key)

\* sum of field f over the rows
RECURSIVE SumField(_, _)
SumField(rows, f) == IF rows = << >> THEN 0 ELSE Head(rows)[f] + SumField(Tail(rows), f)

\* summarize: one item per key; lat[int(0.95 * len(lat)) - 1], where index -1
\* is the last element
summarize(rows, by) ==
    LET keys == KeysInOrder(rows, by)
        item(k) ==
            LET bucket == SelectSeq(rows, LAMBDA r : r[by] = k)
                lat == Sorted([i \in DOMAIN bucket |-> bucket[i].latency_ms])
                at == (95 * Len(lat)) \div 100 - 1
            IN  [key |-> k,
                 requests |-> Len(bucket),
                 tokens_in |-> SumField(bucket, "tokens_in"),
                 tokens_out |-> SumField(bucket, "tokens_out"),
                 cost_usd |-> RoundHalfEven(SumField(bucket, "cost_usd"), 200),
                 latency_ms_p95 |-> IF at < 0 THEN lat[Len(lat)] ELSE lat[at + 1]]
    IN  [i \in DOMAIN keys |-> item(keys[i])]

----------------------------------------------------------------------------
(* Budget manager: configuration and status *)

\* a YAML document whose top level is a list
YamlList == [kind |-> "yamllist"]

\* a value of the document that is a mapping, and one that is null
Mapping(items) == [kind |-> "map", items |-> items]

NullValue == [kind |-> "null"]

\* n USD in units of 0.00005 USD
Usd(n) == 20000 * n

\* _load_team_budget_config, lines 92-99: default_config
DefaultFallbacks ==
    [m \in {"gpt-4", "claude-3-opus"} |->
        IF m = "gpt-4" THEN "gpt-3.5-turbo" ELSE "claude-3-haiku"]

DefaultBudget ==
    Mapping([monthly_limit_usd |-> Usd(500), alert_threshold |-> <<4, 5>>,
             mode |-> "soft", budget_fallbacks |-> DefaultFallbacks])

\* _load_team_budget_config, lines 101-110: config.get("budget", default_config)
\* of the parsed file, whatever that value is; default_config when the file is
\* absent, does not parse, or its top level has no get
load_team_budget_config(org) ==
    LET file == config[PathOf(org)]
    IN  IF file.kind = "yaml" /\ "budget" \in DOMAIN file.doc
        THEN file.doc["budget"]
        ELSE DefaultBudget

\* dict.get(key, default)
Get(d, key, default) == IF key \in DOMAIN d THEN d[key] ELSE default

\* datetime.utcnow().day: day 0 of the model is the 15th of the month
DayOfMonth(t) == t + 15

\* _get_days_in_month: the month of the model has 30 days
get_days_in_month(t) == 30

\* now.replace(day=1, hour=0, ...)
MonthStart(t) == t - (DayOfMonth(t) - 1)

BudgetError(e) == [raised |-> TRUE, error |-> e]

Alert(level, rule, action_required) ==
    [level |-> level, rule |-> rule, action_required |-> action_required]

\* _generate_budget_alerts with every >= read as >
generate_budget_alerts_strict(current, budget, projected, percentage, t) ==
    LET first ==
            IF RatLess(<<100, 1>>, percentage)
            THEN <<Alert("critical", "exceeded", TRUE)>>
            ELSE IF RatLess(<<90, 1>>, percentage)
            THEN <<Alert("critical", "nearly_exhausted", TRUE)>>
            ELSE IF RatLess(<<80, 1>>, percentage)
            THEN <<Alert("warning", "threshold", FALSE)>>
            ELSE IF RatLess(Rat(budget * 11, 10), projected)
            THEN <<Alert("warning", "projected", FALSE)>>
            ELSE << >>
        info ==
            IF RatLess(percentage, <<50, 1>>) /\ DayOfMonth(t) > 15
            THEN <<Alert("info", "low_usage", FALSE)>>
            ELSE << >>
    IN  first \o info

\* _generate_budget_alerts: percentage and projected are rationals, current and
\* projected in units of 0.00005 USD; an alert is represented by its level, the
\* branch that made it and its action_required
generate_budget_alerts(current, budget, projected, percentage, t) ==
    LET first ==
            IF RatLeq(<<100, 1>>, percentage)
            THEN <<Alert("critical", "exceeded", TRUE)>>
            ELSE IF RatLeq(<<90, 1>>, percentage)
            THEN <<Alert("critical", "nearly_exhausted", TRUE)>>
            ELSE IF RatLeq(<<80, 1>>, percentage)
            THEN <<Alert("warning", "threshold", FALSE)>>
            ELSE IF RatLess(Rat(budget * 11, 10), projected)
            THEN <<Alert("warning", "projected", FALSE)>>
            ELSE << >>
        info ==
            IF RatLess(percentage, <<50, 1>>) /\ DayOfMonth(t) > 15
            THEN <<Alert("info", "low_usage", FALSE)>>
            ELSE << >>
    IN  first \o info

\* the models _generate_smart_suggestions and apply_budget_enforcement hold
\* to be expensive
ExpensiveModels == {"gpt-4", "claude-3-opus", "gpt-4-turbo"}

\* _generate_smart_suggestions: the suggestions by the branch that makes them;
\* the ratios over total_cost raise when the month's rows cost nothing
generate_smart_suggestions(usage_data, budget_config, t) ==
    IF usage_data = << >> THEN [raised |-> FALSE, suggestions |-> <<"start">>]
    ELSE
      LET total_cost == SumCost(usage_data)
          total_requests == Len(usage_data)
          cost_of(route) == SumCost(SelectSeq(usage_data, LAMBDA r : r.route = route))
          count_of(route) == Len(SelectSeq(usage_data, LAMBDA r : r.route = route))
          expensive_cost ==
              SumCost(SelectSeq(usage_data, LAMBDA r : r.model \in ExpensiveModels))
          fallbacks == Get(budget_config.items, "budget_fallbacks", << >>)
          limit == Get(budget_config.items, "monthly_limit_usd", Usd(500))
      IN  IF total_cost = 0 THEN BudgetError("ZeroDivisionError")
          ELSE [raised |-> FALSE,
                suggestions |->
                   (IF 2 * cost_of("agent") > total_cost THEN <<"agent">> ELSE << >>)
                   \o (IF 5 * cost_of("direct") > 2 * total_cost /\ count_of("direct") > 20
                       THEN <<"direct">> ELSE << >>)
                   \o (IF 10 * count_of("web") < total_requests THEN <<"web">> ELSE << >>)
                   \o (IF 10 * expensive_cost > 7 * total_cost /\ DOMAIN fallbacks # {}
                       THEN <<"premium">> ELSE << >>)
                   \o (IF total_requests > 100 /\ total_cost > 1000 * total_requests
                       THEN <<"average">> ELSE << >>)
                   \o (IF DayOfMonth(t) > 20 /\ 5 * total_cost > 4 * limit
                       THEN <<"late">> ELSE << >>)]

\* get_budget_status: the BudgetStatus, or the exception raised. current_spend
\* and projected_spend are rounded to cents, percentage_used to tenths of a
\* percent; the alerts are made from the values before rounding
get_budget_status(org) ==
    LET budget_config == load_team_budget_config(org)
        usage_data == get_usage_between(requests, org, MonthStart(now), now)
        current_spend == SumCost(usage_data)
    IN  IF ~storeUp THEN BudgetError("OperationalError")
        ELSE IF budget_config.kind # "map" THEN BudgetError("AttributeError")
        ELSE
          LET monthly_budget == Get(budget_config.items, "monthly_limit_usd", Usd(500))
              days_elapsed == (now - MonthStart(now)) + 1
              days_in_month == get_days_in_month(now)
              projected_spend == Rat(current_spend * days_in_month, days_elapsed)
          IN  IF monthly_budget = 0 THEN BudgetError("ZeroDivisionError")
              ELSE
                LET percentage_used == Rat(current_spend * 100, monthly_budget)
                    s == generate_smart_suggestions(usage_data, budget_config, now)
                IN  IF s.raised THEN s
                    ELSE [raised |-> FALSE,
                          org |-> org,
                          period |-> "monthly",
                          current_spend |-> RoundHalfEven(current_spend, 200),
                          budget_limit |-> monthly_budget,
                          percentage_used |->
                              RoundHalfEven(percentage_used[1] * 10, percentage_used[2]),
                          days_remaining |-> days_in_month - days_elapsed,
                          projected_spend |->
                              RoundHalfEven(projected_spend[1], projected_spend[2] * 200),
                          alerts |-> generate_budget_alerts(current_spend, monthly_budget,
                                         projected_spend, percentage_used, now),
                          suggestions |-> s.suggestions]

----------------------------------------------------------------------------
(* Budget manager: enforcement *)

EnforcementInfo(enforced, route, model, reason) ==
    [enforced |-> enforced, original_route |-> route, original_model |-> model,
     reason |-> reason]

\* apply_budget_enforcement, lines 285-286
ExpensiveRoutes == {"agent"}

\* apply_budget_enforcement, line 292: the model hard enforcement returns
HardModel == "gpt-3.5-turbo"

\* apply_budget_enforcement: (new_route, new_model, enforcement_info), or the
\* exception get_budget_status raised. The thresholds are compared with the
\* fields of the BudgetStatus: percentage_used in tenths, projected_spend in
\* cents
apply_budget_enforcement(org, route, model) ==
    LET budget_status == get_budget_status(org)
        budget_config == load_team_budget_config(org)
    IN  IF budget_status.raised THEN budget_status
        ELSE
          LET enforcement_mode == Get(budget_config.items, "mode", "observe")
              unchanged == [raised |-> FALSE, route |-> route, model |-> model,
                            info |-> EnforcementInfo(FALSE, route, model, "None")]
              should_enforce ==
                  \/ budget_status.percentage_used > 900
                  \/ budget_status.projected_spend * 1000 > budget_status.budget_limit * 6
              fallbacks == Get(budget_config.items, "budget_fallbacks", << >>)
              downgrade == model \in DOMAIN fallbacks
              to_ask == route = "agent" /\ budget_status.percentage_used > 950
          IN  IF enforcement_mode = "observe" THEN unchanged
              ELSE IF ~should_enforce THEN unchanged
              ELSE IF enforcement_mode = "soft"
              THEN [raised |-> FALSE,
                    route |-> IF to_ask THEN "ask" ELSE route,
                    model |-> IF downgrade THEN fallbacks[model] ELSE model,
                    info |-> EnforcementInfo(downgrade \/ to_ask, route, model,
                                IF to_ask THEN "routing to ask"
                                ELSE IF downgrade THEN "downgraded" ELSE "None")]
              ELSE IF /\ enforcement_mode = "hard"
                      /\ budget_status.percentage_used >= 1000
                      /\ (route \in ExpensiveRoutes \/ model \in ExpensiveModels)
              THEN [raised |-> FALSE, route |-> "ask", model |-> HardModel,
                    info |-> EnforcementInfo(TRUE, route, model, "hard limit")]
              ELSE unchanged

----------------------------------------------------------------------------
(* State *)

NoRouter == [registered |-> FALSE]

Router(p) == [registered |-> TRUE, patterns |-> p]

\* the learn_from_usage coroutines that can be in flight together
TaskIds == {1, 2}

IdleTask == [pc |-> "idle"]

NoReply == [op |-> "none"]

Raised(op, org) == [op |-> op, org |-> org, status |-> "raised"]

NeverLearned == [asof |-> 0, usage |-> << >>]

\* TeamLearningManager.get_router: the registered router's dict, or the dict a
\* router constructed now loads
RouterPatterns(org) ==
    IF routers[org].registered THEN routers[org].patterns
    ELSE load_patterns(disk[PathOf(org)], now)

NoFiles == [f \in Paths |-> AbsentFile]

\* the process starts with the pattern files `files` in data/learning, the
\* policy files `policies` in config and PG_ENABLE_LEARNING set as `flag`:
\* module globals as tools.py and adaptive_router.py initialise them, an empty
\* requests table
Deploy(files, flag, policies) ==
    /\ now = 0
    /\ storeUp = TRUE
    /\ learning = flag
    /\ config = policies
    /\ requests = << >>
    /\ disk = files
    /\ weightsCache = [o \in OrgNames |-> NotCached]
    /\ routers = [o \in OrgNames |-> NoRouter]
    /\ tasks = [t \in TaskIds |-> IdleTask]
    /\ reply = NoReply
    /\ learned = [o \in OrgNames |-> NeverLearned]
    /\ fbCalls = << >>

\* the same, with no policy file in config
Boot(files, flag) == Deploy(files, flag, NoFiles)

\* a fresh deployment: no pattern file, no policy file, learning switched off
Init == Boot(NoFiles, FALSE)

----------------------------------------------------------------------------
(* Operations *)

\* time passes
Tick ==
    /\ now < MaxTime
    /\ now' = now + 1
    /\ UNCHANGED <<storeUp, env, requests, disk, weightsCache, routers,
                   tasks, reply, learned, fbCalls>>

\* the usage-record store stops answering
StoreFails ==
    /\ storeUp
    /\ storeUp' = FALSE
    /\ UNCHANGED <<now, env, requests, disk, weightsCache, routers,
                   tasks, reply, learned, fbCalls>>

\* the usage-record store answers again
StoreRecovers ==
    /\ ~storeUp
    /\ storeUp' = TRUE
    /\ UNCHANGED <<now, env, requests, disk, weightsCache, routers,
                   tasks, reply, learned, fbCalls>>

\* t_log_request with an insert that replaces the table by the new row
TLogRequestReplacing(org, body) ==
    /\ Len(requests) < MaxRequests
    /\ storeUp
    /\ LET cost == estimate(body.tokens_in, body.tokens_out, body.model, COSTS)
       IN  /\ requests' = <<[org |-> org, user |-> body.user, route |-> body.route,
                             model |-> body.model, tokens_in |-> body.tokens_in,
                             tokens_out |-> body.tokens_out, cost_usd |-> cost,
                             latency_ms |-> body.latency_ms, ts |-> now]>>
           /\ reply' = [op |-> "logRequest", org |-> org, status |-> "ok",
                        cost_usd |-> cost]
    /\ UNCHANGED <<now, storeUp, env, disk, weightsCache, routers, tasks, learned, fbCalls>>

\* t_log_request -> t_log_and_estimate -> estimate, insert_request (the table
\* _ensure_db creates is there whenever the store answers)
TLogRequest(org, body) ==
    /\ Len(requests) < MaxRequests
    /\ IF storeUp
       THEN LET cost == estimate(body.tokens_in, body.tokens_out, body.model, COSTS)
                row  == [org |-> org,
                         user |-> IF Truthy(body.user) THEN body.user ELSE "unknown",
                         route |-> body.route,
                         model |-> body.model,
                         tokens_in |-> body.tokens_in,
                         tokens_out |-> body.tokens_out,
                         cost_usd |-> cost,
                         latency_ms |-> body.latency_ms,
                         ts |-> now]
            IN  /\ requests' = Append(requests, row)
                /\ reply' = [op |-> "logRequest", org |-> org, status |-> "ok",
                             cost_usd |-> cost]
       ELSE /\ requests' = requests
            /\ reply' = Raised("logRequest", org)
    /\ UNCHANGED <<now, storeUp, env, disk, weightsCache, routers, tasks, learned, fbCalls>>

\* t_suggest_route
\* variant: the router keeps the weights get_adaptive_weights returned
TSuggestRouteKeepingBoost(org, prompt, user) ==
    LET p == RouterPatterns(org)
        w == get_adaptive_weights(p, user)
        adaptive_result == suggest_with_learning(p, prompt, user)
        weights == load_team_weights(org)
        scores == IF learning THEN adaptive_result.scores ELSE score(prompt, weights)
        top == IF learning THEN adaptive_result.top_route ELSE TopRoute(scores)
    IN
    /\ routers' = IF learning
                  THEN [routers EXCEPT ![org] =
                           Router(IF w.raised THEN p ELSE Put(p, "route_weights", w.weights))]
                  ELSE routers
    /\ weightsCache' = IF learning THEN weightsCache
                       ELSE [weightsCache EXCEPT ![org] = [cached |-> TRUE, weights |-> weights]]
    /\ IF (learning /\ adaptive_result.raised) \/ ~storeUp
       THEN reply' = Raised("suggestRoute", org)
       ELSE reply' = [op |-> "suggestRoute", org |-> org, status |-> "ok",
                      top_route |-> top,
                      scores |-> scores,
                      ranking |-> Ranking(scores),
                      reasons |-> explain(prompt),
                      weekly_spend |-> WeeklySpend(org)]
    /\ UNCHANGED <<now, storeUp, env, requests, disk, tasks, learned, fbCalls>>

TSuggestRoute(org, prompt, user) ==
    LET p == RouterPatterns(org)
        adaptive_result == suggest_with_learning(p, prompt, user)
        weights == load_team_weights(org)
        scores == IF learning THEN adaptive_result.scores ELSE score(prompt, weights)
        top == IF learning THEN adaptive_result.top_route ELSE TopRoute(scores)
    IN
    \* lines 47-54: the adaptive path registers the router, the static path
    \* fills the weights cache
    /\ routers' = IF learning THEN [routers EXCEPT ![org] = Router(p)] ELSE routers
    /\ weightsCache' = IF learning THEN weightsCache
                       ELSE [weightsCache EXCEPT ![org] = [cached |-> TRUE, weights |-> weights]]
    /\ IF learning /\ adaptive_result.raised
       THEN reply' = Raised("suggestRoute", org)
       \* line 65: _get_team_context reads the last week's usage
       ELSE IF ~storeUp
       THEN reply' = Raised("suggestRoute", org)
       ELSE reply' = [op |-> "suggestRoute", org |-> org, status |-> "ok",
                      top_route |-> top,
                      scores |-> scores,
                      ranking |-> Ranking(scores),
                      reasons |-> explain(prompt),
                      weekly_spend |-> WeeklySpend(org)]
    /\ UNCHANGED <<now, storeUp, env, requests, disk, tasks, learned, fbCalls>>

\* TeamLearningManager.get_router(org) on an organization not yet registered
GetRouter(org) ==
    /\ ~routers[org].registered
    /\ routers' = [routers EXCEPT ![org] = Router(RouterPatterns(org))]
    /\ UNCHANGED <<now, storeUp, env, requests, disk, weightsCache,
                   tasks, reply, learned, fbCalls>>

\* record_team_feedback -> get_router -> AdaptiveRouter.record_feedback
RecordTeamFeedback(org, prompt, suggested_route, actual_route, outcome, user) ==
    /\ Len(fbCalls) < MaxFeedback
    /\ LET entry == FeedbackEntry(prompt, suggested_route, actual_route, outcome, user, now)
           r == record_feedback(RouterPatterns(org), entry)
       IN
       /\ fbCalls' = Append(fbCalls, [org |-> org, entry |-> entry])
       /\ IF r.raised
           THEN /\ routers' = [routers EXCEPT ![org] = Router(r.patterns)]
                /\ disk' = disk
                /\ reply' = Raised("recordFeedback", org)
           ELSE /\ routers' = [routers EXCEPT ![org] = Router(StampPatterns(r.patterns, now))]
                /\ disk' = [disk EXCEPT ![PathOf(org)] = save_patterns(r.patterns, now)]
                /\ reply' = reply
    /\ UNCHANGED <<now, storeUp, env, requests, weightsCache, tasks, learned>>

\* learn_from_usage, lines 58-61, run as coroutine t: the query. The coroutine
\* then suspends in the session's exit, and others run before it resumes.
LearnQuery(t, org, days_back) ==
    /\ routers[org].registered
    /\ tasks[t].pc = "idle"
    /\ \A u \in TaskIds : u < t => tasks[u].pc # "idle"
    /\ IF storeUp
       THEN /\ tasks' = [tasks EXCEPT ![t] =
                   [pc |-> "queried", org |-> org, end_date |-> now,
                    usage_data |-> get_usage_between(requests, org, now - days_back, now)]]
            /\ reply' = reply
       ELSE /\ tasks' = tasks
            /\ reply' = Raised("learn", org)
    /\ UNCHANGED <<now, storeUp, env, requests, disk, weightsCache,
                   routers, learned, fbCalls>>

\* learn_from_usage, lines 63-96, of coroutine t: runs to its end without
\* suspending
LearnResume(t) ==
    /\ tasks[t].pc = "queried"
    /\ LET org == tasks[t].org
           usage_data == tasks[t].usage_data
       IN  IF usage_data = << >>
           THEN UNCHANGED <<disk, routers, learned>>
           ELSE LET p == LearnedPatterns(routers[org].patterns, usage_data)
                IN  /\ routers' = [routers EXCEPT ![org] = Router(StampPatterns(p, now))]
                    /\ disk' = [disk EXCEPT ![PathOf(org)] = save_patterns(p, now)]
                    /\ learned' = [learned EXCEPT ![org] =
                           [asof |-> tasks[t].end_date, usage |-> usage_data]]
    /\ tasks' = [tasks EXCEPT ![t] = IdleTask]
    /\ UNCHANGED <<now, storeUp, env, requests, weightsCache, reply, fbCalls>>

\* the organizations that have a router in TeamLearningManager.routers
Registered == {o \in OrgNames : routers[o].registered}

\* the outcome of an update_all_teams call: completed, or ended by an
\* exception; the organizations registered when it started, those whose
\* learn_from_usage returned, and the one whose learn_from_usage raised
AllTeamsReply(status, started, updated, failed) ==
    [op |-> "updateAll", status |-> status, started |-> started,
     updated |-> updated, failed |-> failed]

\* update_all_teams run as coroutine t, from the call to its first suspension:
\* the iterator over routers.values() is created and, if the registry is not
\* empty, the first router's learn_from_usage runs up to its query.  An
\* exception of the query leaves update_all_teams.  (The registry is a dict
\* iterated in insertion order, which the model does not record: any
\* registered organization may come first.)
UpdateAllStart(t) ==
    /\ tasks[t].pc = "idle"
    /\ IF Registered = {}
       THEN /\ reply' = AllTeamsReply("ok", {}, {}, {})
            /\ tasks' = tasks
       ELSE \E org \in Registered :
            IF ~storeUp
            THEN /\ reply' = AllTeamsReply("raised", Registered, {}, {org})
                 /\ tasks' = tasks
            ELSE /\ tasks' = [tasks EXCEPT ![t] =
                        [pc |-> "all_queried", org |-> org, end_date |-> now,
                         usage_data |-> get_usage_between(requests, org,
                                                          now - DEFAULT_DAYS_BACK, now),
                         started |-> Registered, updated |-> {}]]
                 /\ reply' = reply
    /\ UNCHANGED <<now, storeUp, env, requests, disk, weightsCache,
                   routers, learned, fbCalls>>

\* update_all_teams of coroutine t, from one suspension to the next: the
\* current router's learn_from_usage runs to its end (lines 63-96), then the
\* loop asks the iterator for the next router.  The iterator raises
\* RuntimeError when the registry's size is not the one it started with, ends
\* the loop when every router has been visited, and otherwise yields a router
\* whose learn_from_usage runs up to its query.
UpdateAllResume(t) ==
    /\ tasks[t].pc = "all_queried"
    /\ LET org == tasks[t].org
           usage_data == tasks[t].usage_data
           started == tasks[t].started
           updated == tasks[t].updated \cup {org}
       IN  /\ IF usage_data = << >>
              THEN UNCHANGED <<disk, routers, learned>>
              ELSE LET p == LearnedPatterns(routers[org].patterns, usage_data)
                   IN  /\ routers' = [routers EXCEPT ![org] = Router(StampPatterns(p, now))]
                       /\ disk' = [disk EXCEPT ![PathOf(org)] = save_patterns(p, now)]
                       /\ learned' = [learned EXCEPT ![org] =
                              [asof |-> tasks[t].end_date, usage |-> usage_data]]
           /\ IF Cardinality(Registered) # Cardinality(started)
              THEN /\ reply' = AllTeamsReply("raised", started, updated, {})
                   /\ tasks' = [tasks EXCEPT ![t] = IdleTask]
              ELSE IF started \subseteq updated
              THEN /\ reply' = AllTeamsReply("ok", started, updated, {})
                   /\ tasks' = [tasks EXCEPT ![t] = IdleTask]
              ELSE \E next \in started \ updated :
                   IF ~storeUp
                   THEN /\ reply' = AllTeamsReply("raised", started, updated, {next})
                        /\ tasks' = [tasks EXCEPT ![t] = IdleTask]
                   ELSE /\ tasks' = [tasks EXCEPT ![t] =
                               [pc |-> "all_queried", org |-> next, end_date |-> now,
                                usage_data |-> get_usage_between(requests, next,
                                                                 now - DEFAULT_DAYS_BACK, now),
                                started |-> started, updated |-> updated]]
                        /\ reply' = reply
    /\ UNCHANGED <<now, storeUp, env, requests, weightsCache, fbCalls>>

\* the process exits and starts again: the registry, the caches and the
\* coroutines are gone, the files and the table remain
Restart ==
    /\ \E o \in OrgNames : routers[o].registered
    /\ routers' = [o \in OrgNames |-> NoRouter]
    /\ tasks' = [t \in TaskIds |-> IdleTask]
    /\ weightsCache' = [o \in OrgNames |-> NotCached]
    /\ UNCHANGED <<now, storeUp, env, requests, disk, reply, learned, fbCalls>>

\* t_budget_status: the BudgetStatus as a dict, or the dict that reports the
\* exception
TBudgetStatus(org) ==
    /\ LET budget_status == get_budget_status(org)
       IN  reply' = IF budget_status.raised
                    THEN [op |-> "budgetStatus", org |-> org, status |-> "error",
                          error |-> budget_status.error]
                    ELSE [op |-> "budgetStatus", org |-> org, status |-> "ok",
                          budget |-> budget_status]
    /\ UNCHANGED <<now, storeUp, env, requests, disk, weightsCache, routers,
                   tasks, learned, fbCalls>>

\* a caller applies score to a prompt and a weight map
ScoreCall(prompt, weights) ==
    /\ reply' = [op |-> "score", prompt |-> prompt, weights |-> weights,
                 scores |-> score(prompt, weights)]
    /\ UNCHANGED <<now, storeUp, env, requests, disk, weightsCache, routers,
                   tasks, learned, fbCalls>>

\* t_usage_summary
TUsageSummary(org, since, until, by) ==
    /\ reply' = IF storeUp
                THEN [op |-> "usageSummary", org |-> org, status |-> "ok",
                      items |-> summarize(get_usage_between(requests, org, since, until), by)]
                ELSE Raised("usageSummary", org)
    /\ UNCHANGED <<now, storeUp, env, requests, disk, weightsCache, routers,
                   tasks, learned, fbCalls>>

\* enforce_budget_policy -> budget_manager.apply_budget_enforcement
EnforceBudgetPolicy(org, route, model) ==
    /\ LET e == apply_budget_enforcement(org, route, model)
       IN  reply' = IF e.raised
                    THEN Raised("enforce", org)
                    ELSE [op |-> "enforce", org |-> org, status |-> "ok",
                          route |-> e.route, model |-> e.model, info |-> e.info]
    /\ UNCHANGED <<now, storeUp, env, requests, disk, weightsCache, routers,
                   tasks, learned, fbCalls>>

\* summarize applied to a list of rows
SummarizeCall(rows, by) ==
    /\ reply' = [op |-> "summarize", rows |-> rows, by |-> by,
                 items |-> summarize(rows, by)]
    /\ UNCHANGED <<now, storeUp, env, requests, disk, weightsCache, routers,
                   tasks, learned, fbCalls>>

\* estimate applied to token counts, a model name and a rate table
EstimateCall(tokens_in, tokens_out, model, costs) ==
    /\ reply' = [op |-> "estimate", tokens_in |-> tokens_in, tokens_out |-> tokens_out,
                 model |-> model, costs |-> costs,
                 cost |-> estimate(tokens_in, tokens_out, model, costs)]
    /\ UNCHANGED <<now, storeUp, env, requests, disk, weightsCache, routers,
                   tasks, learned, fbCalls>>

\* get_router(org).get_adaptive_weights(user)
AdaptiveWeightsCall(org, user) ==
    LET p == RouterPatterns(org)
        w == get_adaptive_weights(p, user)
    IN
    /\ routers' = [routers EXCEPT ![org] = Router(p)]
    /\ reply' = IF w.raised
                THEN Raised("adaptiveWeights", org)
                ELSE [op |-> "adaptiveWeights", org |-> org, status |-> "ok",
                      user |-> user, weights |-> w.weights]
    /\ UNCHANGED <<now, storeUp, env, requests, disk, weightsCache, tasks,
                   learned, fbCalls>>

\* explain applied to a prompt
ExplainCall(prompt) ==
    /\ reply' = [op |-> "explain", prompt |-> prompt, reasons |-> explain(prompt)]
    /\ UNCHANGED <<now, storeUp, env, requests, disk, weightsCache, routers,
                   tasks, learned, fbCalls>>

----------------------------------------------------------------------------
(* Inputs *)

Teams == {OrgAcme}

\* logRequest bodies: a web call on a cheap model, an agent run on a dear one,
\* an agent run that costs a little more than the web call, a free local call
WebCall ==
    [route |-> "web", model |-> "openai/gpt-4o-mini", tokens_in |-> 1000,
     tokens_out |-> 0, latency_ms |-> 120, user |-> "ann"]

AgentCall ==
    [route |-> "agent", model |-> "openai/gpt-4o", tokens_in |-> 1000,
     tokens_out |-> 0, latency_ms |-> 900, user |-> NoUser]

NearAgentCall ==
    [route |-> "agent", model |-> "openai/gpt-4o-mini", tokens_in |-> 1000,
     tokens_out |-> 1, latency_ms |-> 700, user |-> NoUser]

FreeCall ==
    [route |-> "ask", model |-> "local/tiny-llama", tokens_in |-> 1000,
     tokens_out |-> 1000, latency_ms |-> 50, user |-> "ann"]

WebBodies == {WebCall}

CheapBodies == {WebCall, FreeCall}

PaidBodies == {WebCall, AgentCall, NearAgentCall}

MixedBodies == {WebCall, AgentCall, FreeCall}

FeedbackArgs ==
    { <<"web", "web", "good", "ann">>, <<"web", "agent", "good", NoUser>>,
      <<"agent", "agent", "neutral", "ann">>, <<"agent", "web", "bad", NoUser>> }

DaysBack == {1, DEFAULT_DAYS_BACK}

Users == {"ann", NoUser}

\* a pattern log of n events, recorded one a day from day -PATTERN_CAP on
PriorLog(n, outcome) ==
    [i \in 1..n |->
        FeedbackEntry(PromptList[1], "web", "web", outcome, "ann", i - PATTERN_CAP - 1)]

\* the dict of a router that has recorded n good and n bad events
PriorPatterns(n) ==
    Put(Put(DefaultPatterns(0), "successful_patterns", PriorLog(n, "good")),
        "failed_patterns", PriorLog(n, "bad"))

\* pattern files that are not what _save_patterns writes: not JSON, the JSON
\* object {}, and a JSON object with the route weights alone
CorruptFiles ==
    {GarbageFile, JsonFile(<< >>), JsonFile([route_weights |-> DefaultWeights])}

\* the (route, model) pairs budget enforcement is asked about
ServedRequests ==
    { <<"agent", "gpt-4">>, <<"web", "gpt-4">>, <<"web", "gpt-4-turbo">>,
      <<"agent", "openai/gpt-4o-mini">>, <<"direct", "openai/gpt-4o-mini">> }

\* a policy file with a budget section of the keys given
PolicyFile(budget) == YamlFile([budget |-> Mapping(budget)])

\* a fallback table of the organization's own
TeamFallbacks ==
    [m \in {"gpt-4", "gpt-4-turbo"} |->
        IF m = "gpt-4" THEN "openai/gpt-4o" ELSE "openai/gpt-4o-mini"]

\* a budget section of the mode and the monthly limit (in units of 0.00005
\* USD) given, with the organization's fallback table
Budget(mode, limit) ==
    [monthly_limit_usd |-> limit, alert_threshold |-> <<4, 5>>, mode |-> mode,
     budget_fallbacks |-> TeamFallbacks]

\* well-formed policy files. The limits are 5, 4, 3 and 2.50 USD, the limit
\* one agent run (2.50 USD) takes 95.02 % of, and the limit a web call and an
\* agent run (2.65 USD) take 99.96 % of
BudgetPolicies ==
    { PolicyFile(Budget("observe", 50000)),
      PolicyFile(Budget("soft", 100000)),
      PolicyFile(Budget("soft", 80000)),
      PolicyFile(Budget("soft", 60000)),
      PolicyFile(Budget("soft", 52620)),
      PolicyFile(Budget("hard", 100000)),
      PolicyFile(Budget("hard", 53020)),
      PolicyFile([mode |-> "soft", monthly_limit_usd |-> 50000]) }

BudgetBodies == {WebCall, AgentCall, FreeCall}

\* policy files without a usable budget: no file, a file that does not
\* parse, a top-level list, no budget section, a null budget section, a
\* budget section without a limit, a limit of 0
MalformedPolicies ==
    { AbsentFile, GarbageFile, YamlList,
      YamlFile([routing_weights |-> DefaultWeights]),
      YamlFile([budget |-> NullValue]),
      PolicyFile([mode |-> "soft"]),
      PolicyFile([mode |-> "soft", monthly_limit_usd |-> 0]) }

\* every combination of the signals score reads from a prompt
AllPrompts ==
    [fresh : BOOLEAN, compare : BOOLEAN, complex : BOOLEAN, stepwise : BOOLEAN,
     bullets : BOOLEAN, ambiguous : BOOLEAN, notsure : BOOLEAN, recommend : BOOLEAN,
     budget : BOOLEAN, short : BOOLEAN, oneq : BOOLEAN]

\* the same weight w on all four channels
EqualWeights(w) == [c \in ChannelSet |-> w]

\* weight maps with positive weights: equal weights, the empty map, maps that
\* lack channels, a map with a key that is no channel, unequal weights
WeightMaps ==
    { EqualWeights(RatOne), EqualWeights(<<2, 1>>), EqualWeights(<<1, 4>>), << >>,
      [c \in {"web"} |-> <<3, 2>>],
      [c \in {"agent", "voice"} |-> <<1, 2>>],
      [c \in ChannelSet |-> IF c \in {"web", "ask"} THEN <<1, 2>> ELSE <<5, 4>>] }

\* prompts by the signals that set the four accumulators apart: fresh,
\* complex, ambiguous, and a short single question
SignalPrompts ==
    {p \in AllPrompts :
        /\ ~p.compare /\ ~p.stepwise /\ ~p.bullets /\ ~p.notsure
        /\ ~p.recommend /\ ~p.budget
        /\ p.short = p.oneq}

\* policy files for the static path: none, and one that raises the weights of
\* agent and direct
WeightPolicies ==
    { AbsentFile,
      YamlFile([routing_weights |-> [c \in {"agent", "direct"} |-> <<3, 2>>]]) }

\* rows of the requests table as summarize reads them
UsageRow(user, feature, model, tokens_in, tokens_out, cost_usd, latency_ms) ==
    [user |-> user, feature |-> feature, model |-> model,
     tokens_in |-> tokens_in, tokens_out |-> tokens_out,
     cost_usd |-> cost_usd, latency_ms |-> latency_ms]

SummaryRows ==
    {UsageRow("ann", "chat", "openai/gpt-4o", 1000, 100, 70000, 300),
     UsageRow("bob", "chat", "openai/gpt-4o-mini", 2000, 0, 6000, 100),
     UsageRow("ann", "code", "openai/gpt-4o-mini", 500, 500, 7500, 200),
     UsageRow("bob", "code", "local/tiny-llama", 4000, 300, 0, 0)}

RECURSIVE SeqsUpTo(_, _)
SeqsUpTo(S, n) ==
    IF n = 0 THEN {<< >>}
    ELSE LET shorter == SeqsUpTo(S, n - 1)
         IN  shorter \cup {Append(s, x) : s \in shorter, x \in S}

RowLists == SeqsUpTo(SummaryRows, MaxRows)

GroupBy == {"user", "feature", "model"}

\* a rate table loaded from a cost_models.yaml (same units as DefaultCosts)
CustomCosts ==
    [m \in {"openai/gpt-4o", "acme/tuned"} |->
        IF m = "openai/gpt-4o" THEN [in |-> 40, out |-> 160] ELSE [in |-> 7, out |-> 0]]

RateTables == {DefaultCosts, CustomCosts}

TokenCounts == {0, 1, 500, 1000, 128000}

ModelNames == DOMAIN DefaultCosts \cup DOMAIN CustomCosts \cup {"acme/unlisted"}

\* a user's histogram of routes, as learn_from_usage builds it
Histogram(web, agent, ask) ==
    [c \in {"web"} \cup (IF agent > 0 THEN {"agent"} ELSE {})
                   \cup (IF ask > 0 THEN {"ask"} ELSE {}) |->
        CASE c = "web" -> web [] c = "agent" -> agent [] OTHER -> ask]

\* user_preferences as learned: no user yet; ann with 11 requests, 7 on web;
\* with 10 requests, 6 on web; with 15 requests, exactly 40% of them on web;
\* with 11 requests, 5 on web and 5 on agent
LearnedPreferences ==
    { << >> } \cup
    { [u \in {"ann"} |-> h] : h \in {Histogram(7, 4, 0), Histogram(6, 4, 0),
                                   Histogram(6, 5, 4), Histogram(5, 5, 1)} }

\* route weights as learned: the base weights, and the weights of a week in
\* which web was the most efficient route and agent a quarter as efficient
LearnedWeights ==
    { DefaultWeights,
      [c \in ChannelSet |-> CASE c = "web" -> <<3, 2>> [] c = "agent" -> <<9, 8>>
                              [] OTHER -> RatOne] }

\* the pattern files of routers that have learned and recorded feedback: up to
\* two successes (web suggested and taken) in the log
LearnedFiles ==
    { save_patterns(Put(Put(PriorPatterns(n), "user_preferences", prefs),
                        "route_weights", weights), 0) :
        n \in 0..2, prefs \in LearnedPreferences, weights \in LearnedWeights }

----------------------------------------------------------------------------
(* Specifications *)

\* time passes and requests are logged
Usage(orgs, bodies) ==
    \/ Tick
    \/ \E org \in orgs, body \in bodies : TLogRequest(org, body)

\* routers are created, the coroutines of ids run learn_from_usage, and the
\* process restarts
Learning(orgs, ids) ==
    \/ \E org \in orgs : GetRouter(org)
    \/ \E t \in ids, org \in orgs, d \in DaysBack : LearnQuery(t, org, d)
    \/ \E t \in ids : LearnResume(t)
    \/ Restart

\* users report how a suggestion went
Feedback(orgs) ==
    \E org \in orgs, a \in FeedbackArgs :
        RecordTeamFeedback(org, PromptList[1], a[1], a[2], a[3], a[4])

\* one organization's router, learning updates one at a time (as
\* update_all_teams runs them), with feedback
Next ==
    \/ Usage(Teams, WebBodies)
    \/ Learning(Teams, {1})
    \/ Feedback(Teams)

Spec == Init /\ [][Next]_vars

\* one run of the process: learning updates one at a time over paid requests
NextLearn ==
    \/ Usage(Teams, PaidBodies)
    \/ \E org \in Teams : GetRouter(org)
    \/ \E org \in Teams, d \in DaysBack : LearnQuery(1, org, d)
    \/ LearnResume(1)

SpecLearn == Init /\ [][NextLearn]_vars

\* learning updates one at a time over paid and free requests, with reports
\* of a suggestion that went badly
NextWeights ==
    \/ Usage(Teams, MixedBodies)
    \/ Learning(Teams, {1})
    \/ \E org \in Teams :
          RecordTeamFeedback(org, PromptList[1], "agent", "web", "bad", NoUser)

SpecWeights == Init /\ [][NextWeights]_vars

\* two scheduled learning updates overlap
NextOverlap ==
    \/ Usage(Teams, CheapBodies)
    \/ Learning(Teams, TaskIds)
    \/ Feedback(Teams)

SpecOverlap == Init /\ [][NextOverlap]_vars

\* two organizations whose names differ in case and in a space
NextAlias ==
    \/ Usage(OrgNames, WebBodies)
    \/ \E org \in OrgNames : GetRouter(org)
    \/ \E org \in OrgNames, d \in DaysBack : LearnQuery(1, org, d)
    \/ LearnResume(1)
    \/ Feedback(OrgNames)

SpecAlias == Init /\ [][NextAlias]_vars

\* a router whose logs are at the cap, or one or two events short of it,
\* takes feedback
InitLogs ==
    \E n \in {PATTERN_CAP - 2, PATTERN_CAP - 1, PATTERN_CAP} :
        Boot([NoFiles EXCEPT ![PathOf(OrgAcme)] = save_patterns(PriorPatterns(n), 0)],
             FALSE)

NextLogs ==
    \/ Tick
    \/ \E org \in Teams : GetRouter(org)
    \/ Feedback(Teams)
    \/ Restart

SpecLogs == InitLogs /\ [][NextLogs]_vars

\* the server starts with learning on and a pattern file that is not what
\* _save_patterns writes; the store answers throughout
InitCorrupt ==
    \E file \in CorruptFiles : Boot([NoFiles EXCEPT ![PathOf(OrgAcme)] = file], TRUE)

NextCorrupt ==
    \/ Usage(Teams, WebBodies)
    \/ \E org \in Teams, prompt \in Prompts, user \in Users :
          TSuggestRoute(org, prompt, user)
    \/ Feedback(Teams)
    \/ Restart

SpecCorrupt == InitCorrupt /\ [][NextCorrupt]_vars

\* the server, with learning on or off, while the store fails and recovers
InitStore == \E flag \in BOOLEAN : Boot(NoFiles, flag)

NextStore ==
    \/ StoreFails
    \/ StoreRecovers
    \/ Usage(Teams, WebBodies)
    \/ \E org \in Teams, prompt \in Prompts, user \in Users :
          TSuggestRoute(org, prompt, user)

SpecStore == InitStore /\ [][NextStore]_vars

\* budget status is read and enforcement is asked about served requests
Budgeting(orgs) ==
    \/ \E org \in orgs : TBudgetStatus(org)
    \/ \E org \in orgs, r \in ServedRequests : EnforceBudgetPolicy(org, r[1], r[2])

\* an organization with a well-formed budget policy: requests are logged over
\* the second half of a month, and the budget is consulted
InitBudget ==
    \E policy \in BudgetPolicies : Deploy(NoFiles, FALSE, [f \in Paths |-> policy])

NextBudget ==
    \/ Usage(Teams, BudgetBodies)
    \/ Budgeting(Teams)

SpecBudget == InitBudget /\ [][NextBudget]_vars

\* an organization whose policy file has no usable budget
InitPolicy ==
    \E policy \in MalformedPolicies : Deploy(NoFiles, FALSE, [f \in Paths |-> policy])

NextPolicy ==
    \/ Usage(Teams, {AgentCall})
    \/ Budgeting(Teams)

SpecPolicy == InitPolicy /\ [][NextPolicy]_vars

\* every operation of the server on one organization
InitSystem == Boot(NoFiles, FALSE)

NextSystem ==
    \/ Usage(Teams, {AgentCall})
    \/ \E org \in Teams : TSuggestRoute(org, PromptList[1], NoUser)
    \/ \E org \in Teams : TUsageSummary(org, 0, MaxTime, "model")
    \/ \E org \in Teams : TBudgetStatus(org)
    \/ \E org \in Teams : EnforceBudgetPolicy(org, "agent", "gpt-4")
    \/ \E org \in Teams : GetRouter(org)
    \/ \E org \in Teams : LearnQuery(1, org, DEFAULT_DAYS_BACK)
    \/ LearnResume(1)
    \/ \E org \in Teams :
          RecordTeamFeedback(org, PromptList[1], "web", "web", "good", NoUser)

SpecSystem == InitSystem /\ [][NextSystem]_vars

\* score applied, once in a behaviour, to any combination of signals under any
\* weight map
NextScore ==
    /\ reply = NoReply
    /\ \E prompt \in AllPrompts, weights \in WeightMaps : ScoreCall(prompt, weights)

SpecScore == Init /\ [][NextScore]_vars

\* suggestRoute on both paths, with feedback that boosts a channel
InitSuggest ==
    \E flag \in BOOLEAN, policy \in WeightPolicies :
        Deploy(NoFiles, flag, [f \in Paths |-> policy])

NextSuggest ==
    \/ \E org \in Teams, prompt \in SignalPrompts : TSuggestRoute(org, prompt, NoUser)
    \/ Feedback(Teams)

SpecSuggest == InitSuggest /\ [][NextSuggest]_vars

\* summarize applied, once in a behaviour, to any list of rows under any key
NextSummary ==
    /\ reply = NoReply
    /\ \E rows \in RowLists, by \in GroupBy : SummarizeCall(rows, by)

SpecSummary == Init /\ [][NextSummary]_vars

\* estimate applied, once in a behaviour, to any token counts, model and table
NextEstimate ==
    /\ reply = NoReply
    /\ \E tokens_in \in TokenCounts, tokens_out \in TokenCounts,
          model \in ModelNames, costs \in RateTables :
           EstimateCall(tokens_in, tokens_out, model, costs)

SpecEstimate == Init /\ [][NextEstimate]_vars

\* a process started over the pattern file of a router that has learned: its
\* organization takes suggestions, with and without a user, and feedback
InitAdaptive ==
    \E file \in LearnedFiles : Boot([NoFiles EXCEPT ![PathOf(OrgAcme)] = file], TRUE)

NextAdaptive ==
    \/ \E org \in Teams, prompt \in Prompts, user \in Users : TSuggestRoute(org, prompt, user)
    \/ \E org \in Teams, user \in Users : AdaptiveWeightsCall(org, user)
    \/ Feedback(Teams)

SpecAdaptive == InitAdaptive /\ [][NextAdaptive]_vars

\* explain applied, once in a behaviour, to any combination of signals
NextExplain ==
    /\ reply = NoReply
    /\ \E prompt \in AllPrompts : ExplainCall(prompt)

SpecExplain == Init /\ [][NextExplain]_vars

\* update_all_teams over the routers of two organizations, while requests are
\* logged, routers are registered and the store fails and recovers
InitAllTeams == Boot(NoFiles, TRUE)

NextAllTeams ==
    \/ Usage(OrgNames, {WebCall})
    \/ \E org \in OrgNames : GetRouter(org)
    \/ StoreFails
    \/ StoreRecovers
    \/ UpdateAllStart(1)
    \/ UpdateAllResume(1)

SpecAllTeams == InitAllTeams /\ [][NextAllTeams]_vars

----------------------------------------------------------------------------
(* Properties: concurrency of learning updates and feedback *)

\* C1 (as stated). However learn_from_usage and record_feedback calls for one
\* organization interleave, no step drops an entry from a pattern log, and no
\* step replaces the route weights by weights computed from a usage snapshot
\* older than the one already applied.
C1_NoStaleWeights ==
    [][\A o \in Teams :
          /\ \A k \in LogKeys : \A i \in DOMAIN RouterPatterns(o)[k] :
                \E j \in DOMAIN RouterPatterns(o)'[k] :
                    RouterPatterns(o)'[k][j] = RouterPatterns(o)[k][i]
          /\ learned'[o].asof < learned[o].asof =>
                RouterPatterns(o)'.route_weights = RouterPatterns(o).route_weights
      ]_vars

----------------------------------------------------------------------------
(* Properties: isolation of organizations *)

\* C2 (as stated). Operations on one organization leave every other
\* organization's state alone: a router loaded for an organization that no
\* operation has named yet finds the default pattern state.
C2_Isolated ==
    \A b \in OrgNames :
        ~routers[b].registered =>
            load_patterns(disk[PathOf(b)], now) = DefaultPatterns(now)

----------------------------------------------------------------------------
(* Properties: feedback *)

\* the feedback entries passed to record_feedback for org, in call order
FeedbackOf(org) ==
    LET calls == SelectSeq(fbCalls, LAMBDA c : c.org = org)
    IN  [i \in DOMAIN calls |-> calls[i].entry]

\* C4 (as stated). Every record_feedback call, whatever its outcome and
\* whether or not the actual route matches the suggested one, leaves its
\* event in one of the two pattern logs.
C4_EveryCallLogged ==
    \A i \in DOMAIN fbCalls :
        LET p == RouterPatterns(fbCalls[i].org)
        IN  \E k \in LogKeys : \E j \in DOMAIN p[k] : p[k][j] = fbCalls[i].entry

\* C4 (amended). The successful log holds exactly the events whose outcome
\* is good and whose actual route is the suggested one, the failed log exactly
\* the events whose outcome is bad, each in call order; an event that is
\* neutral, or good with another actual route, is in neither log.
C4_LoggedByOutcome ==
    \A o \in Teams :
        /\ RouterPatterns(o).successful_patterns =
              SelectSeq(FeedbackOf(o), LAMBDA e : e.outcome = "good"
                                                  /\ e.suggested_route = e.actual_route)
        /\ RouterPatterns(o).failed_patterns =
              SelectSeq(FeedbackOf(o), LAMBDA e : e.outcome = "bad")

\* a call was made whose event went to neither log, and the state was saved
C4_Witness ==
    \E i \in DOMAIN fbCalls :
        /\ fbCalls[i].entry.outcome = "good"
        /\ fbCalls[i].entry.suggested_route # fbCalls[i].entry.actual_route
        /\ disk[PathOf(fbCalls[i].org)].kind = "json"
        /\ RouterPatterns(fbCalls[i].org).successful_patterns = << >>

\* C3. Each pattern log, in memory and on disk, holds at most PATTERN_CAP
\* events. A record_feedback call whose event belongs in a log appends it
\* there, dropping the oldest event when the log was full; no other step
\* changes a log.
C3_BoundedFifo ==
    /\ [](\A o \in Teams : \A k \in LogKeys :
            /\ Len(RouterPatterns(o)[k]) <= PATTERN_CAP
            /\ Len(load_patterns(disk[PathOf(o)], now)[k]) <= PATTERN_CAP)
    /\ [][\A o \in Teams : \A k \in LogKeys :
            LET old == RouterPatterns(o)[k]
                new == RouterPatterns(o)'[k]
                call == fbCalls'[Len(fbCalls')]
            IN  IF /\ Len(fbCalls') = Len(fbCalls) + 1
                   /\ call.org = o
                   /\ \/ k = "failed_patterns" /\ call.entry.outcome = "bad"
                      \/ /\ k = "successful_patterns"
                         /\ call.entry.outcome = "good"
                         /\ call.entry.suggested_route = call.entry.actual_route
                THEN new = Append(IF Len(old) < PATTERN_CAP THEN old ELSE Tail(old),
                                  call.entry)
                ELSE new = old
       ]_vars

\* a full log took one more event: it is still PATTERN_CAP long, ends with
\* the new event and no longer starts with the event of day -PATTERN_CAP
C3_Witness ==
    \E o \in Teams : \E k \in LogKeys :
        LET log == RouterPatterns(o)[k]
        IN  /\ Len(log) = PATTERN_CAP
            /\ log[PATTERN_CAP].timestamp >= 0
            /\ log[1].timestamp = 1 - PATTERN_CAP

----------------------------------------------------------------------------
(* Properties: durability *)

DurableKeys == {"route_weights", "user_preferences"} \cup LogKeys

\* C5. After every completed operation, a router constructed now for the
\* organization loads from its file exactly the route weights, the
\* user-preference histograms and the two pattern logs the live router holds.
C5_Durable ==
    \A o \in Teams :
        routers[o].registered =>
            \A k \in DurableKeys :
                load_patterns(disk[PathOf(o)], now)[k] = routers[o].patterns[k]

\* a live router with learned weights, a histogram and a logged event of an
\* anonymous user, all of them on disk
C5_Witness ==
    \E o \in Teams :
        /\ routers[o].registered
        /\ disk[PathOf(o)].kind = "json"
        /\ routers[o].patterns.route_weights # DefaultWeights
        /\ DOMAIN routers[o].patterns.user_preferences # {}
        /\ \E i \in DOMAIN routers[o].patterns.failed_patterns :
              routers[o].patterns.failed_patterns[i].user = NoUser

----------------------------------------------------------------------------
(* Properties: availability of suggestRoute *)

\* C6 (as stated). A router loaded from a pattern file that does not parse,
\* or parses to the wrong structure, has every entry of the default pattern
\* state, and a suggestRoute served by it returns a result.
C6_CorruptResets ==
    /\ \A o \in Teams :
          routers[o].registered =>
              DOMAIN routers[o].patterns = DOMAIN DefaultPatterns(now)
    /\ reply.op = "suggestRoute" => reply.status = "ok"

\* C7 (as stated). suggestRoute returns a result, with a top route, a
\* ranking and reasons, whether or not the store answers.
C7_SuggestAnswers ==
    reply.op = "suggestRoute" =>
        /\ reply.status = "ok"
        /\ reply.top_route \in ChannelSet
        /\ Len(reply.ranking) = Len(Channels)

----------------------------------------------------------------------------
(* Properties: learned weights *)

\* C8 (as stated). A learning update whose usage window is empty leaves the
\* organization's route weights at the default, whatever they were before.
C8_EmptyWindowDefaults ==
    [][\A t \in TaskIds :
          (/\ tasks[t].pc = "queried"
           /\ tasks[t].usage_data = << >>
           /\ tasks'[t].pc = "idle"
           /\ routers'[tasks[t].org].registered)
          => routers'[tasks[t].org].patterns.route_weights = DefaultWeights
      ]_vars

\* web and agent both have positive total cost in the usage last learned
\* from, and web has strictly more requests per dollar
WebBeatsAgent(usage) ==
    /\ TotalCost(usage, "web") > 0
    /\ TotalCost(usage, "agent") > 0
    /\ CountRoute(usage, "web") * TotalCost(usage, "agent")
         > CountRoute(usage, "agent") * TotalCost(usage, "web")

----------------------------------------------------------------------------
(* Properties: budget enforcement *)

\* spec 4.7: currentSpend, the cost of the organization's requests of the
\* current month
CurrentSpend(org) == SumCost(get_usage_between(requests, org, MonthStart(now), now))

\* the monthly limit and the fallback table the organization has configured
ConfiguredBudget(org) == config[PathOf(org)].doc["budget"].items

\* spec 4.7: percentageUsed = currentSpend / limit * 100
PercentageUsed(org) == Rat(CurrentSpend(org) * 100, ConfiguredBudget(org)["monthly_limit_usd"])

\* spec 4.7: projectedSpend = currentSpend / daysElapsed * daysInMonth
ProjectedSpend(org) == Rat(CurrentSpend(org) * get_days_in_month(now), DayOfMonth(now))

\* the step is a call of enforcement that returned
Enforced == reply' # reply /\ reply'.op = "enforce" /\ reply'.status = "ok"

\* the rate of a model in the rate table, 0 when it has none (as estimate
\* takes it)
RateOf(model) == estimate(1000, 1000, model, COSTS)

\* C11: in hard mode with percentageUsed >= 100, a request on an expensive
\* route or an expensive model is returned as route ask with the cheapest
\* model of the organization's configured fallback table and enforced = true,
\* and every other request is returned unchanged
C11_HardCheapestFallback ==
    [][\A org \in Teams :
        /\ Enforced
        /\ reply'.org = org
        /\ ConfiguredBudget(org)["mode"] = "hard"
        /\ RatLeq(<<100, 1>>, PercentageUsed(org))
        => LET fallbacks == ConfiguredBudget(org)["budget_fallbacks"]
               targets == {fallbacks[k] : k \in DOMAIN fallbacks}
               info == reply'.info
           IN  IF \/ info.original_route \in ExpensiveRoutes
                  \/ info.original_model \in ExpensiveModels
               THEN /\ reply'.route = "ask"
                    /\ info.enforced
                    /\ reply'.model \in targets
                    /\ \A m \in targets : RateOf(reply'.model) <= RateOf(m)
               ELSE /\ reply'.route = info.original_route
                    /\ reply'.model = info.original_model]_vars

\* the step is a call of enforcement for org, whether it returned or raised
EnforceCalled(org) == reply' # reply /\ reply'.op = "enforce" /\ reply'.org = org

\* C12: in soft mode the model is replaced by its entry of the configured
\* fallback table exactly when (percentageUsed > 90 or projectedSpend > 1.2 *
\* limit) and it has an entry, the route agent becomes ask exactly when
\* percentageUsed > 95, and otherwise the call returns route and model
\* unchanged with enforced = false
C12_SoftDowngrades ==
    [][\A org \in Teams :
        EnforceCalled(org) /\ ConfiguredBudget(org)["mode"] = "soft"
        => /\ reply'.status = "ok"
           /\ LET fallbacks == Get(ConfiguredBudget(org), "budget_fallbacks", << >>)
                  limit == ConfiguredBudget(org)["monthly_limit_usd"]
                  info == reply'.info
                  over == \/ RatLess(<<90, 1>>, PercentageUsed(org))
                          \/ RatLess(Rat(limit * 6, 5), ProjectedSpend(org))
                  replaced == over /\ info.original_model \in DOMAIN fallbacks
                  to_ask == /\ info.original_route = "agent"
                            /\ RatLess(<<95, 1>>, PercentageUsed(org))
              IN  /\ reply'.model = IF replaced THEN fallbacks[info.original_model]
                                    ELSE info.original_model
                  /\ reply'.route = IF to_ask THEN "ask" ELSE info.original_route
                  /\ info.enforced = (replaced \/ to_ask)]_vars

\* C13: in observe mode apply_budget_enforcement returns the route and the
\* model it was given with enforced = false, whatever the spend and the
\* projection
C13_ObserveUnchanged ==
    [][\A org \in Teams :
        EnforceCalled(org) /\ ConfiguredBudget(org)["mode"] = "observe"
        => /\ reply'.status = "ok"
           /\ reply'.route = reply'.info.original_route
           /\ reply'.model = reply'.info.original_model
           /\ ~reply'.info.enforced]_vars

\* C14: every record inserted through logRequest carries a route and a model
\* that went through the organization's budget enforcement before the insert:
\* enforcement, asked at the insert about the record's route and model,
\* returns them as they are
C14_EnforcedBeforeLogged ==
    [][Len(requests') > Len(requests)
        => LET row == requests'[Len(requests')]
               e == apply_budget_enforcement(row.org, row.route, row.model)
           IN  e.raised \/ (e.route = row.route /\ e.model = row.model)]_vars

----------------------------------------------------------------------------
(* Properties: budget configuration and alerts *)

\* C15: whatever the policy file holds (nothing, text that does not parse, a
\* non-mapping, no budget section, a budget section that is not a mapping, no
\* monthly limit or a limit of 0), get_budget_status and
\* apply_budget_enforcement return normally, with the monthly limit 500
C15_ConfigNeverRaises ==
    [][\A org \in Teams :
        /\ reply' # reply
        /\ reply'.op \in {"budgetStatus", "enforce"}
        /\ reply'.org = org
        => /\ reply'.status = "ok"
           /\ reply'.op = "budgetStatus" => reply'.budget.budget_limit = Usd(500)]_vars

\* C16: the alert list of a budget status holds at most one critical or
\* warning alert, the first that matches of percentageUsed >= 100 (critical,
\* action required), >= 90 (critical, action required), >= 80 (warning),
\* projectedSpend > 1.1 * limit (warning); and it holds the info alert exactly
\* when percentageUsed < 50 on a day of the month after the 15th, whatever the
\* other alert
C16_AlertsByFirstMatch ==
    [][\A org \in Teams :
        /\ reply' # reply
        /\ reply'.op = "budgetStatus"
        /\ reply'.org = org
        /\ reply'.status = "ok"
        => LET alerts == reply'.budget.alerts
               graded == SelectSeq(alerts, LAMBDA a : a.level \in {"critical", "warning"})
               info == SelectSeq(alerts, LAMBDA a : a.level = "info")
               pct == PercentageUsed(org)
               limit == ConfiguredBudget(org)["monthly_limit_usd"]
               atLeast(n) == RatLeq(<<n, 1>>, pct)
               projected == RatLess(Rat(limit * 11, 10), ProjectedSpend(org))
           IN  /\ Len(graded) + Len(info) = Len(alerts)
               /\ graded =
                    CASE atLeast(100) -> <<Alert("critical", "exceeded", TRUE)>>
                      [] ~atLeast(100) /\ atLeast(90) ->
                           <<Alert("critical", "nearly_exhausted", TRUE)>>
                      [] ~atLeast(90) /\ atLeast(80) ->
                           <<Alert("warning", "threshold", FALSE)>>
                      [] ~atLeast(80) /\ projected ->
                           <<Alert("warning", "projected", FALSE)>>
                      [] OTHER -> << >>
               /\ Len(info) = IF RatLess(pct, <<50, 1>>) /\ DayOfMonth(now) > 15
                              THEN 1 ELSE 0]_vars

\* a budget status whose only alert is the projection warning, the last of the
\* four to be tried: 2.65 USD spent by the 16th against a limit of 4 USD
C16_Witness ==
    /\ reply.op = "budgetStatus"
    /\ reply.status = "ok"
    /\ reply.budget.alerts = <<Alert("warning", "projected", FALSE)>>
    /\ reply.budget.percentage_used < 800

----------------------------------------------------------------------------
(* Properties: the usage log *)

\* C17: the usage log is append-only. A logRequest call that returns has added
\* exactly one record, whose cost is the estimate for its tokens and model and
\* is the cost returned; no step of any operation changes or removes a record
\* already written, and only logRequest adds one
C17_AppendOnly ==
    [][/\ Len(requests') >= Len(requests)
       /\ \A i \in DOMAIN requests : requests'[i] = requests[i]
       /\ Len(requests') <= Len(requests) + 1
       /\ Len(requests') = Len(requests) + 1
          => LET row == requests'[Len(requests')]
                 rate == IF row.model \in DOMAIN COSTS THEN COSTS[row.model]
                         ELSE [in |-> 0, out |-> 0]
             IN  /\ reply'.op = "logRequest"
                 /\ reply'.status = "ok"
                 /\ row.cost_usd = row.tokens_in * rate["in"] + row.tokens_out * rate["out"]
                 /\ reply'.cost_usd = row.cost_usd
       /\ (reply' # reply /\ reply'.op = "logRequest" /\ reply'.status = "ok")
          => Len(requests') = Len(requests) + 1]_vars

\* two records are in the log, written on different days, the router has
\* learned from the first, and a budget status has been served since
C17_Witness ==
    /\ Len(requests) = 2
    /\ requests[1].ts < requests[2].ts
    /\ reply.op = "budgetStatus"
    /\ \E o \in Teams : learned[o].usage # << >>

----------------------------------------------------------------------------
(* Properties: the scorer *)

\* weights.get(c, 1.0)
WeightOf(weights, c) == IF c \in DOMAIN weights THEN weights[c] ELSE RatOne

\* C18: for every prompt and every weight map with positive weights (a missing
\* weight counting as 1.0), score returns exactly the entries web, agent, ask
\* and direct, each greater than 0 and at most the weight of its channel
C18_ScoreInRange ==
    reply.op = "score"
    => /\ DOMAIN reply.scores = {"web", "agent", "ask", "direct"}
       /\ \A c \in DOMAIN reply.scores :
             /\ RatLess(<<0, 1>>, reply.scores[c])
             /\ RatLeq(reply.scores[c], WeightOf(reply.weights, c))

\* score has been applied to a prompt with the fresh and the complex signal
\* under a map that has a weight for web alone
C18_Witness ==
    /\ reply.op = "score"
    /\ reply.prompt.fresh /\ reply.prompt.complex
    /\ DOMAIN reply.weights = {"web"}
    /\ reply.scores["agent"] = Rat(7503, 10000)
    /\ RatLess(RatOne, reply.scores["web"])

\* C19: with equal weights on the four channels, for every combination of
\* signals, web is the strict arg-max of score when the fresh signal is
\* present, and agent is when the complex signal is present and fresh is not
C19_FreshAndComplexWin ==
    /\ reply.op = "score"
    /\ \A c \in ChannelSet : WeightOf(reply.weights, c) = WeightOf(reply.weights, "web")
    => LET strictMax(top) == \A c \in ChannelSet \ {top} :
                                 RatLess(reply.scores[c], reply.scores[top])
       IN  /\ reply.prompt.fresh => strictMax("web")
           /\ reply.prompt.complex /\ ~reply.prompt.fresh => strictMax("agent")

\* score has been applied, under equal weights, to a prompt with the complex
\* signal and every signal of ask and direct but not fresh
C19_Witness ==
    /\ reply.op = "score"
    /\ reply.weights = EqualWeights(<<2, 1>>)
    /\ reply.prompt.complex /\ ~reply.prompt.fresh /\ reply.prompt.compare
    /\ reply.prompt.ambiguous /\ reply.prompt.short /\ reply.prompt.oneq
    /\ reply.scores["agent"] = Rat(7503, 5000)

\* C20: on the static path and on the adaptive path of suggestRoute, the top
\* channel reported has the greatest score, is the first in the order web,
\* agent, ask, direct of the channels that have it, and is the first entry of
\* the ranking returned
C20_TopIsFirstMaximum ==
    reply.op = "suggestRoute" /\ reply.status = "ok"
    => LET scores == reply.scores
           top == reply.top_route
           place(c) == CHOOSE i \in 1..4 : <<"web", "agent", "ask", "direct">>[i] = c
       IN  /\ \A c \in ChannelSet : RatLeq(scores[c], scores[top])
           /\ \A c \in ChannelSet : scores[c] = scores[top] => place(top) <= place(c)
           /\ reply.ranking[1].route = top

\* the adaptive path has answered a prompt on which ask and direct share the
\* greatest score, with ask on top and direct second
C20_Witness ==
    /\ learning
    /\ reply.op = "suggestRoute"
    /\ reply.status = "ok"
    /\ reply.top_route = "ask"
    /\ reply.ranking[1].route = "ask"
    /\ reply.ranking[2].route = "direct"
    /\ reply.scores["direct"] = reply.scores["ask"]

----------------------------------------------------------------------------
(* Properties: the usage summary *)

\* the rows of a summarize call whose key is k
GroupOf(k) == SelectSeq(reply.rows, LAMBDA r : r[reply.by] = k)

\* x stands at index k (from 0) of the latencies of the group sorted ascending
AtSortedIndex(group, x, k) ==
    /\ \E i \in DOMAIN group : group[i].latency_ms = x
    /\ Cardinality({i \in DOMAIN group : group[i].latency_ms < x}) <= k
    /\ k < Cardinality({i \in DOMAIN group : group[i].latency_ms <= x})

\* C21 (as stated): for every group of n >= 1 usage records the p95 latency
\* reported by summarize is the element at index ceil(0.95 * n) - 1 of the
\* group's latencies sorted ascending.
C21_P95CeilRank ==
    reply.op = "summarize" =>
        \A i \in DOMAIN reply.items :
            LET group == GroupOf(reply.items[i].key)
                n == Len(group)
            IN  AtSortedIndex(group, reply.items[i].latency_ms_p95,
                              (95 * n + 99) \div 100 - 1)

\* C21 (amended): for every group of n >= 1 usage records the p95 latency
\* reported by summarize is the element at index floor(0.95 * n) - 1 of the
\* group's latencies sorted ascending, where index -1 (n = 1) is the last
\* element; for n = 1 it is that record's latency.
C21_P95FloorRank ==
    reply.op = "summarize" =>
        \A i \in DOMAIN reply.items :
            LET group == GroupOf(reply.items[i].key)
                n == Len(group)
                at == (95 * n) \div 100 - 1
            IN  /\ n >= 1
                /\ AtSortedIndex(group, reply.items[i].latency_ms_p95,
                                 IF at < 0 THEN n - 1 ELSE at)
                /\ n = 1 => reply.items[i].latency_ms_p95 = group[1].latency_ms

\* a group of two records with different latencies, the larger one first: the
\* reported p95 is the smaller latency
C21_Witness ==
    /\ reply.op = "summarize"
    /\ \E i \in DOMAIN reply.items :
           LET group == GroupOf(reply.items[i].key)
           IN  /\ Len(group) = 2
               /\ group[1].latency_ms > group[2].latency_ms
               /\ reply.items[i].latency_ms_p95 = group[2].latency_ms

\* index of the first row whose key is k
FirstOccurrence(k) ==
    CHOOSE i \in DOMAIN reply.rows :
        /\ reply.rows[i][reply.by] = k
        /\ \A j \in 1..(i - 1) : reply.rows[j][reply.by] # k

\* C22: summarize returns exactly one rollup per distinct key value, in the
\* order of the key's first occurrence in the input; the request counts and
\* the token sums of the rollups add up to those of the input; for the empty
\* list it returns the empty list.
C22_OneRollupPerKey ==
    reply.op = "summarize" =>
        LET items == reply.items
            rows == reply.rows
        IN  /\ {items[i].key : i \in DOMAIN items}
                   = {rows[j][reply.by] : j \in DOMAIN rows}
            /\ \A i, j \in DOMAIN items :
                   i < j => FirstOccurrence(items[i].key) < FirstOccurrence(items[j].key)
            /\ SumField(items, "requests") = Len(rows)
            /\ SumField(items, "tokens_in") = SumField(rows, "tokens_in")
            /\ SumField(items, "tokens_out") = SumField(rows, "tokens_out")
            /\ rows = << >> => items = << >>

\* three rows of two keys, the first key occurring again after the second
C22_Witness ==
    /\ reply.op = "summarize"
    /\ Len(reply.rows) = 3
    /\ Len(reply.items) = 2
    /\ reply.rows[1][reply.by] = reply.rows[3][reply.by]
    /\ reply.items[1].key = reply.rows[1][reply.by]
    /\ reply.items[1].requests = 2

----------------------------------------------------------------------------
(* Properties: the cost estimator *)

\* C23: estimate returns tokensIn/1000 * inRate + tokensOut/1000 * outRate for
\* a model present in the rate table, 0 for every token count when the model is
\* absent from the table, and 0 for every model when both token counts are 0;
\* an unknown model yields a cost, never an error.  (Costs are in units of
\* 0.00005 USD and rates in units of 0.05 USD per 1000 tokens, so the cost of
\* t tokens at rate r is t * r units.)
C23_EstimateFormula ==
    reply.op = "estimate" =>
        /\ reply.cost \in Nat
        /\ reply.model \in DOMAIN reply.costs =>
               reply.cost = reply.tokens_in * reply.costs[reply.model]["in"]
                            + reply.tokens_out * reply.costs[reply.model]["out"]
        /\ reply.model \notin DOMAIN reply.costs => reply.cost = 0
        /\ (reply.tokens_in = 0 /\ reply.tokens_out = 0) => reply.cost = 0

\* a listed model charged for input and output tokens: the default table
\* prices 1000 + 500 tokens of gpt-3.5-turbo at 1.25 USD
C23_Witness ==
    /\ reply.op = "estimate"
    /\ reply.costs = DefaultCosts
    /\ reply.model = "openai/gpt-3.5-turbo"
    /\ reply.tokens_in = 1000
    /\ reply.tokens_out = 500
    /\ reply.cost = 25000

----------------------------------------------------------------------------
(* Properties: adaptive suggestions *)

\* channel c appears with suggested = actual among the most recent 100
\* successful-pattern entries of p
RecentlySucceeded(p, c) ==
    LET recent == LastN(p["successful_patterns"], RECENT_PATTERNS)
    IN  \E i \in DOMAIN recent :
            /\ recent[i].suggested_route = c
            /\ recent[i].actual_route = c

\* C24: in suggest_with_learning the final score of a channel is its Scorer
\* score (under the adaptive weights) multiplied by 1.1 if the channel appears
\* with suggested = actual in at least one of the 100 most recent
\* successful-pattern entries, and its Scorer score unchanged otherwise,
\* whatever the number of matching entries.
C24_BoostOnce ==
    [][\A org \in Teams, prompt \in Prompts, user \in Users :
          (TSuggestRoute(org, prompt, user) /\ reply'.status = "ok") =>
              LET p == RouterPatterns(org)
                  base == score(prompt, get_adaptive_weights(p, user).weights)
              IN  \A c \in ChannelSet :
                      reply'.scores[c] = IF RecentlySucceeded(p, c)
                                         THEN RatMul(base[c], <<11, 10>>)
                                         ELSE base[c]]_vars

\* C25: get_adaptive_weights multiplies a channel's learned weight by 1.2
\* exactly when a user is given, that user has a preference histogram with more
\* than 10 observed requests in total, and the channel accounts for more than
\* 40% of them; every other weight is returned as learned.
C25_UserBoost ==
    [][\A org \in Teams, user \in Users :
          AdaptiveWeightsCall(org, user) =>
              LET p == RouterPatterns(org)
                  prefs == p["user_preferences"]
                  known == user # NoUser /\ user \in DOMAIN prefs
                  total == IF known THEN SumValues(prefs[user], DOMAIN prefs[user]) ELSE 0
                  boosted(c) == /\ known
                                /\ total > 10
                                /\ c \in DOMAIN prefs[user]
                                /\ 100 * prefs[user][c] > 40 * total
              IN  /\ reply'.status = "ok"
                  /\ \A c \in ChannelSet :
                         reply'.weights[c] = IF boosted(c)
                                             THEN RatMul(p["route_weights"][c], <<6, 5>>)
                                             ELSE p["route_weights"][c]]_vars

\* ann has 11 requests, 7 of them on web, and the learned weights are not the
\* base weights: web's weight is returned raised to 1.5 * 1.2, agent's (4 of
\* 11) as learned, 1.125
C25_Witness ==
    /\ reply.op = "adaptiveWeights"
    /\ reply.status = "ok"
    /\ reply.user = "ann"
    /\ routers[reply.org].registered
    /\ routers[reply.org].patterns["user_preferences"] = [u \in {"ann"} |-> Histogram(7, 4, 0)]
    /\ reply.weights["web"] = <<9, 5>>
    /\ reply.weights["agent"] = <<9, 8>>

\* C30: suggest_with_learning is read-only on learned state: a suggestion
\* leaves the organization's route weights, user-preference histograms,
\* pattern logs (the router's dict is the one it had, or the one it loads on
\* creation) and persisted file unchanged, and touches no other router.
C30_SuggestionReadOnly ==
    [][\A org \in Teams, prompt \in Prompts, user \in Users :
          TSuggestRoute(org, prompt, user) =>
              /\ disk' = disk
              /\ learning => routers'[org] = Router(RouterPatterns(org))
              /\ \A o \in OrgNames \ {org} : routers'[o] = routers[o]]_vars

\* a suggestion has been answered with scores that carry the user boost or the
\* pattern boost, by a router whose dict still yields them
C30_Witness ==
    /\ reply.op = "suggestRoute"
    /\ reply.status = "ok"
    /\ routers[reply.org].registered
    /\ \E prompt \in Prompts, user \in Users :
           LET p == routers[reply.org].patterns
           IN  /\ reply.scores = suggest_with_learning(p, prompt, user).scores
               /\ reply.scores["web"] = RatMul(RatMul(score(prompt, p["route_weights"])["web"],
                                                      <<6, 5>>), <<11, 10>>)
               /\ reply.scores["web"] # <<0, 1>>

----------------------------------------------------------------------------
(* Properties: the explainer *)

\* the reasons a reply of explain lists
ReasonGiven(text) == \E i \in DOMAIN reply.reasons : reply.reasons[i] = text

\* C26: explain tests the same conditions as the Scorer: it emits the direct
\* reason if and only if score adds the direct contribution for the prompt
\* (short, exactly one '?', no fresh signal and no complex signal), and the web
\* reason if and only if score adds the fresh contribution to web.
C26_ExplainMatchesScore ==
    reply.op = "explain" =>
        /\ ReasonGiven("Short Q -> direct") <=> Accumulators(reply.prompt)["direct"] > 0
        /\ ReasonGiven("Fresh/volatile info -> web") <=> Accumulators(reply.prompt)["web"] >= 12

----------------------------------------------------------------------------
(* Properties: learning across organizations *)

\* C27: update_all_teams completes a learning update for every organization
\* that was registered when it started, even when routers of new organizations
\* are registered while it runs and even when the learning update of another
\* organization fails.
C27_AllTeamsUpdated ==
    reply.op = "updateAll" => (reply.started \ reply.failed) \subseteq reply.updated

----------------------------------------------------------------------------
(* Properties: budget arithmetic *)

\* C28: budget enforcement decides on unrounded values: in hard mode a request
\* is returned unaltered while currentSpend < limit, and in soft mode a model
\* with an entry in the fallback table is downgraded whenever the exact
\* percentageUsed is above 90.
C28_DecidesOnExactValues ==
    [][\A org \in Teams :
        Enforced /\ reply'.org = org
        => LET budget == ConfiguredBudget(org)
               fallbacks == Get(budget, "budget_fallbacks", << >>)
               info == reply'.info
           IN  /\ (budget["mode"] = "hard"
                   /\ CurrentSpend(org) < budget["monthly_limit_usd"])
                  => /\ reply'.route = info.original_route
                     /\ reply'.model = info.original_model
                     /\ ~info.enforced
               /\ (budget["mode"] = "soft"
                   /\ RatLess(<<90, 1>>, PercentageUsed(org))
                   /\ info.original_model \in DOMAIN fallbacks)
                  => /\ reply'.model = fallbacks[info.original_model]
                     /\ info.enforced]_vars

\* C29: get_budget_status returns a status, whatever the usage records of the
\* current month (the store answering, the policy well formed); when their
\* total cost is 0, current spend and percentage used are 0.
C29_StatusForEveryUsage ==
    [][\A org \in Teams :
        /\ reply' # reply
        /\ reply'.op = "budgetStatus"
        /\ reply'.org = org
        /\ storeUp
        => /\ reply'.status = "ok"
           /\ CurrentSpend(org) = 0
              => /\ reply'.budget.current_spend = 0
                 /\ reply'.budget.percentage_used = 0]_vars

====
